---------------------------- MODULE Spec2Model ----------------------------
(***************************************************************************)
(* Model of temporal_parseable: the protobuf-to-JSON transport adapter     *)
(* (exporters.py), the signal envelope builder (config.py) and the         *)
(* activity metrics interceptor (metrics_interceptor.py).                  *)
(*                                                                         *)
(* Text is a sequence of characters; a character is a one-character        *)
(* string, or a "U+XXXX" name for a character outside ASCII.  Bytes are    *)
(* sequences of integers in 0..255.                                        *)
(***************************************************************************)
EXTENDS Integers, Sequences, FiniteSets, TLC

(***************************************************************************)
(* Bounds of the model.                                                    *)
(***************************************************************************)
MaxBytes == 3          \* longest enumerated identifier byte string
MaxDepth == 2          \* deepest nesting of an enumerated document
MaxSiblings == 1        \* entries added beside the nested one in a document
NCalls == 2            \* concurrent calls of the adapter's send
NExec == 2             \* concurrent activity executions
MaxExports == 3        \* export calls made through the exporters' sessions
MaxPasses == 3         \* times one request object is handed to the session

(***************************************************************************)
(* Characters and their encodings.                                         *)
(***************************************************************************)
\* Printable ASCII, code points 32..126, in order (U+0060 is the grave accent).
Ascii ==
  << " ", "!", "\"", "#", "$", "%", "&", "'", "(", ")", "*", "+", ",", "-", ".", "/",
     "0", "1", "2", "3", "4", "5", "6", "7", "8", "9", ":", ";", "<", "=", ">", "?",
     "@", "A", "B", "C", "D", "E", "F", "G", "H", "I", "J", "K", "L", "M", "N", "O",
     "P", "Q", "R", "S", "T", "U", "V", "W", "X", "Y", "Z", "[", "\\", "]", "^", "_",
     "U+0060", "a", "b", "c", "d", "e", "f", "g", "h", "i", "j", "k", "l", "m", "n", "o",
     "p", "q", "r", "s", "t", "u", "v", "w", "x", "y", "z", "{", "|", "}", "~" >>

AsciiChars == { Ascii[i] : i \in 1..Len(Ascii) }

IsAscii(ch) == ch \in AsciiChars

\* ord(ch) for an ASCII character.
OrdOf == [ch \in AsciiChars |-> 31 + (CHOOSE i \in 1..Len(Ascii) : Ascii[i] = ch)]
Ord(ch) == OrdOf[ch]

\* chr(n) for 32 <= n <= 126.
Chr(n) == Ascii[n - 31]

\* The characters outside ASCII that the model's texts use, with their UTF-8.
NonAsciiUtf8(ch) ==
  CASE ch = "U+00E9" -> << 195, 169 >>
    [] ch = "U+20AC" -> << 226, 130, 172 >>

\* str.encode("utf-8"), the text taken by halves.
RECURSIVE Utf8Encode(_)
Utf8Encode(text) ==
  IF text = << >> THEN << >>
  ELSE IF Len(text) = 1
       THEN (IF IsAscii(text[1]) THEN << Ord(text[1]) >> ELSE NonAsciiUtf8(text[1]))
       ELSE Utf8Encode(SubSeq(text, 1, Len(text) \div 2))
            \o Utf8Encode(SubSeq(text, Len(text) \div 2 + 1, Len(text)))

\* bytes.hex(): two lowercase hexadecimal digits per byte.
HexDigits ==
  << "0", "1", "2", "3", "4", "5", "6", "7", "8", "9", "a", "b", "c", "d", "e", "f" >>

Hex(raw) ==
  [i \in 1..(2 * Len(raw)) |->
     IF i % 2 = 1 THEN HexDigits[(raw[(i + 1) \div 2] \div 16) + 1]
     ELSE HexDigits[(raw[i \div 2] % 16) + 1]]

\* str(n) for n >= 0.
RECURSIVE DecimalStr(_)
DecimalStr(n) ==
  IF n < 10 THEN << HexDigits[n + 1] >>
  ELSE DecimalStr(n \div 10) \o << HexDigits[(n % 10) + 1] >>

(***************************************************************************)
(* base64 (the standard alphabet), as base64.b64encode / base64.b64decode  *)
(* compute it.                                                             *)
(***************************************************************************)
B64Alphabet ==
  << "A", "B", "C", "D", "E", "F", "G", "H", "I", "J", "K", "L", "M", "N", "O", "P",
     "Q", "R", "S", "T", "U", "V", "W", "X", "Y", "Z", "a", "b", "c", "d", "e", "f",
     "g", "h", "i", "j", "k", "l", "m", "n", "o", "p", "q", "r", "s", "t", "u", "v",
     "w", "x", "y", "z", "0", "1", "2", "3", "4", "5", "6", "7", "8", "9", "+", "/" >>

B64Chars == { B64Alphabet[i] : i \in 1..Len(B64Alphabet) }

IsB64Char(ch) == ch \in B64Chars

\* The 6-bit value of an alphabet character.
B64ValueOf ==
  [ch \in B64Chars |-> (CHOOSE i \in 1..Len(B64Alphabet) : B64Alphabet[i] = ch) - 1]
B64Value(ch) == B64ValueOf[ch]

\* base64.b64encode(raw).decode()
RECURSIVE B64Encode(_)
B64Encode(raw) ==
  IF raw = << >> THEN << >>
  ELSE IF Len(raw) = 1 THEN
    << B64Alphabet[(raw[1] \div 4) + 1],
       B64Alphabet[((raw[1] % 4) * 16) + 1], "=", "=" >>
  ELSE IF Len(raw) = 2 THEN
    << B64Alphabet[(raw[1] \div 4) + 1],
       B64Alphabet[((raw[1] % 4) * 16 + raw[2] \div 16) + 1],
       B64Alphabet[((raw[2] % 16) * 4) + 1], "=" >>
  ELSE
    << B64Alphabet[(raw[1] \div 4) + 1],
       B64Alphabet[((raw[1] % 4) * 16 + raw[2] \div 16) + 1],
       B64Alphabet[((raw[2] % 16) * 4 + raw[3] \div 64) + 1],
       B64Alphabet[(raw[3] % 64) + 1] >>
    \o B64Encode(SubSeq(raw, 4, Len(raw)))

\* The decoder's loop over the characters of the text (non-strict mode):
\* quad is the position in the current group of four, left the bits carried
\* over, pads the run of "=" seen, out the bytes produced so far.  A
\* character outside the alphabet is skipped; a complete pad sequence stops
\* the decoding and the rest of the text is ignored.
RECURSIVE A2bLoop(_, _, _, _, _)
A2bLoop(text, quad, left, pads, out) ==
  IF text = << >> THEN [ok |-> quad = 0, raw |-> out]
  ELSE
    LET ch == Head(text)
        rest == Tail(text)
    IN IF ch = "=" THEN
         IF quad >= 2 /\ quad + pads + 1 >= 4 THEN [ok |-> TRUE, raw |-> out]
         ELSE A2bLoop(rest, quad, left, IF quad >= 2 THEN pads + 1 ELSE pads, out)
       ELSE IF ~IsB64Char(ch) THEN A2bLoop(rest, quad, left, pads, out)
       ELSE
         LET v == B64Value(ch)
         IN CASE quad = 0 -> A2bLoop(rest, 1, v, 0, out)
              [] quad = 1 ->
                   A2bLoop(rest, 2, v % 16, 0, Append(out, left * 4 + v \div 16))
              [] quad = 2 ->
                   A2bLoop(rest, 3, v % 4, 0, Append(out, left * 16 + v \div 4))
              [] quad = 3 ->
                   A2bLoop(rest, 0, 0, 0, Append(out, left * 64 + v))

\* base64.b64decode(value) for a str argument, validate=False: the text is
\* first encoded as ASCII (ValueError for a character outside ASCII), then
\* decoded; ok = FALSE stands for the exception raised.
B64Decode(text) ==
  IF \E i \in 1..Len(text) : ~IsAscii(text[i]) THEN [ok |-> FALSE, raw |-> << >>]
  ELSE A2bLoop(text, 0, 0, 0, << >>)

(***************************************************************************)
(* exporters.py: the identifier fix-up.                                    *)
(***************************************************************************)
\* _b64_to_hex(value), with the plausible slip of rendering the text's own
\* bytes in hexadecimal instead of the bytes it encodes.
HexOfText(value) ==
  IF \E i \in 1..Len(value) : ~IsAscii(value[i]) THEN value ELSE Hex(Utf8Encode(value))

\* _b64_to_hex(value)
_b64_to_hex(value) ==
  LET dec == B64Decode(value)
  IN IF dec.ok THEN Hex(dec.raw) ELSE value

(***************************************************************************)
(* Documents: the value MessageToDict returns and json.dumps serialises.   *)
(* A node is a text, an integer, a mapping (keys and items in insertion    *)
(* order) or a list.                                                       *)
(***************************************************************************)
StrNode(s) == [t |-> "str", s |-> s, n |-> 0, keys |-> << >>, items |-> << >>]
IntNode(n) == [t |-> "int", s |-> << >>, n |-> n, keys |-> << >>, items |-> << >>]
DictNode(keys, items) == [t |-> "dict", s |-> << >>, n |-> 0, keys |-> keys, items |-> items]
ListNode(items) == [t |-> "list", s |-> << >>, n |-> 0, keys |-> << >>, items |-> items]

TraceIdKey == << "t", "r", "a", "c", "e", "I", "d" >>
SpanIdKey == << "s", "p", "a", "n", "I", "d" >>
ParentSpanIdKey == << "p", "a", "r", "e", "n", "t", "S", "p", "a", "n", "I", "d" >>
NameKey == << "n", "a", "m", "e" >>
KindKey == << "k", "i", "n", "d" >>

\* _BYTES_KEYS
_BYTES_KEYS == { TraceIdKey, SpanIdKey, ParentSpanIdKey }

\* _fix_bytes_fields(obj), with the plausible slip of not walking a value
\* under an identifier key when it is not text.
RECURSIVE FixNoDescent(_)
FixNoDescent(obj) ==
  IF obj.t = "dict" THEN
    DictNode(obj.keys,
             [i \in 1..Len(obj.items) |->
                IF obj.keys[i] \in _BYTES_KEYS
                THEN (IF obj.items[i].t = "str"
                      THEN StrNode(_b64_to_hex(obj.items[i].s))
                      ELSE obj.items[i])
                ELSE FixNoDescent(obj.items[i])])
  ELSE IF obj.t = "list" THEN
    ListNode([i \in 1..Len(obj.items) |-> FixNoDescent(obj.items[i])])
  ELSE obj

\* _fix_bytes_fields(obj), with the plausible slip of converting the text
\* under every key.
RECURSIVE FixEveryText(_)
FixEveryText(obj) ==
  IF obj.t = "dict" THEN
    DictNode(obj.keys,
             [i \in 1..Len(obj.items) |->
                IF obj.items[i].t = "str"
                THEN StrNode(_b64_to_hex(obj.items[i].s))
                ELSE FixEveryText(obj.items[i])])
  ELSE IF obj.t = "list" THEN
    ListNode([i \in 1..Len(obj.items) |-> FixEveryText(obj.items[i])])
  ELSE obj

\* _fix_bytes_fields(obj)
RECURSIVE _fix_bytes_fields(_)
_fix_bytes_fields(obj) ==
  IF obj.t = "dict" THEN
    DictNode(obj.keys,
             [i \in 1..Len(obj.items) |->
                IF obj.keys[i] \in _BYTES_KEYS /\ obj.items[i].t = "str"
                THEN StrNode(_b64_to_hex(obj.items[i].s))
                ELSE _fix_bytes_fields(obj.items[i])])
  ELSE IF obj.t = "list" THEN
    ListNode([i \in 1..Len(obj.items) |-> _fix_bytes_fields(obj.items[i])])
  ELSE obj

\* Positions in a document: a path is the sequence of item indices from the root.
RECURSIVE Paths(_)
Paths(node) ==
  { << >> } \cup
  UNION { { << i >> \o p : p \in Paths(node.items[i]) } : i \in 1..Len(node.items) }

RECURSIVE NodeAt(_, _)
NodeAt(node, path) ==
  IF path = << >> THEN node ELSE NodeAt(node.items[Head(path)], Tail(path))

\* TRUE when the path leads to an entry of a mapping.
IsEntry(node, path) ==
  path # << >> /\ NodeAt(node, SubSeq(path, 1, Len(path) - 1)).t = "dict"

\* The key of the mapping entry a path leads to.
KeyAt(node, path) ==
  NodeAt(node, SubSeq(path, 1, Len(path) - 1)).keys[path[Len(path)]]

RECURSIVE Depth(_)
RECURSIVE MaxOf(_)
MaxOf(S) == IF S = {} THEN 0 ELSE LET x == CHOOSE y \in S : \A z \in S : z <= y IN x
Depth(node) ==
  IF node.t \in { "dict", "list" }
  THEN 1 + MaxOf({ Depth(node.items[i]) : i \in 1..Len(node.items) })
  ELSE 0

\* Number of entries beyond the first in the containers of a document.
RECURSIVE Siblings(_)
RECURSIVE SumSeq(_)
SumSeq(q) == IF q = << >> THEN 0 ELSE Head(q) + SumSeq(Tail(q))
Siblings(node) ==
  IF node.t \in { "dict", "list" } /\ node.items # << >>
  THEN (Len(node.items) - 1)
       + SumSeq([i \in 1..Len(node.items) |-> Siblings(node.items[i])])
  ELSE 0

(***************************************************************************)
(* json.dumps(d, ensure_ascii=False): the default separators ", " and      *)
(* ": ", keys in insertion order, a quotation mark or reverse solidus in a  *)
(* text escaped, characters outside ASCII written as they are.             *)
(***************************************************************************)
RECURSIVE JsonEscape(_)
JsonEscape(s) ==
  IF s = << >> THEN << >>
  ELSE IF Len(s) = 1
       THEN (IF s[1] \in { "\"", "\\" } THEN << "\\", s[1] >> ELSE s)
       ELSE JsonEscape(SubSeq(s, 1, Len(s) \div 2))
            \o JsonEscape(SubSeq(s, Len(s) \div 2 + 1, Len(s)))

JsonText(s) == << "\"" >> \o JsonEscape(s) \o << "\"" >>

RECURSIVE JsonDumps(_)
RECURSIVE JsonJoin(_, _, _)
\* The entries of a mapping (or the items of a list, keys = << >>) from index i on.
JsonJoin(keys, items, i) ==
  IF i > Len(items) THEN << >>
  ELSE (IF i > 1 THEN << ",", " " >> ELSE << >>)
       \o (IF keys # << >> THEN JsonText(keys[i]) \o << ":", " " >> ELSE << >>)
       \o JsonDumps(items[i])
       \o JsonJoin(keys, items, i + 1)
JsonDumps(node) ==
  CASE node.t = "str" -> JsonText(node.s)
    [] node.t = "int" -> DecimalStr(node.n)
    [] node.t = "dict" -> << "{" >> \o JsonJoin(node.keys, node.items, 1) \o << "}" >>
    [] node.t = "list" -> << "[" >> \o JsonJoin(<< >>, node.items, 1) \o << "]" >>

(***************************************************************************)
(* Protobuf messages, as the bound message class holds them after          *)
(* ParseFromString: a message (field names and values, set fields only),   *)
(* a repeated field, a bytes field, a string field or an enum field.       *)
(***************************************************************************)
PbMessage(names, fields) ==
  [t |-> "message", b |-> << >>, s |-> << >>, n |-> 0, names |-> names, fields |-> fields]
PbRepeated(fields) ==
  [t |-> "repeated", b |-> << >>, s |-> << >>, n |-> 0, names |-> << >>, fields |-> fields]
PbBytes(b) ==
  [t |-> "bytes", b |-> b, s |-> << >>, n |-> 0, names |-> << >>, fields |-> << >>]
PbString(s) ==
  [t |-> "string", b |-> << >>, s |-> s, n |-> 0, names |-> << >>, fields |-> << >>]
PbEnum(n) ==
  [t |-> "enum", b |-> << >>, s |-> << >>, n |-> n, names |-> << >>, fields |-> << >>]

IsLower(ch) == IsAscii(ch) /\ Ord(ch) >= 97 /\ Ord(ch) <= 122
Upper(ch) == IF IsLower(ch) THEN Chr(Ord(ch) - 32) ELSE ch
IsUpper(ch) == IsAscii(ch) /\ Ord(ch) >= 65 /\ Ord(ch) <= 90
Lower(ch) == IF IsUpper(ch) THEN Chr(Ord(ch) + 32) ELSE ch

\* str.lower()
LowerText(s) == [i \in 1..Len(s) |-> Lower(s[i])]

\* The JSON name of a field: lowerCamelCase of the proto field name.
RECURSIVE JsonName(_)
JsonName(name) ==
  IF name = << >> THEN << >>
  ELSE IF Head(name) = "_" /\ Len(name) > 1
       THEN << Upper(name[2]) >> \o JsonName(SubSeq(name, 3, Len(name)))
       ELSE << Head(name) >> \o JsonName(Tail(name))

\* MessageToDict(msg, use_integers_for_enums=True): field names in
\* lowerCamelCase, bytes as base64 text, enums as integers, nested and
\* repeated fields as nested mappings and lists.
RECURSIVE MessageToDict(_)
MessageToDict(msg) ==
  CASE msg.t = "message" ->
         DictNode([i \in 1..Len(msg.names) |-> JsonName(msg.names[i])],
                  [i \in 1..Len(msg.fields) |-> MessageToDict(msg.fields[i])])
    [] msg.t = "repeated" ->
         ListNode([i \in 1..Len(msg.fields) |-> MessageToDict(msg.fields[i])])
    [] msg.t = "bytes" -> StrNode(B64Encode(msg.b))
    [] msg.t = "string" -> StrNode(msg.s)
    [] msg.t = "enum" -> IntNode(msg.n)

\* len(msg.SerializeToString()): one tag byte per field, one length byte per
\* length-delimited field (every payload here is shorter than 128 bytes).
RECURSIVE PbSize(_)
RECURSIVE PbFieldSize(_)
PbFieldSize(f) ==
  CASE f.t = "message" -> 2 + PbSize(f)
    [] f.t = "repeated" -> SumSeq([i \in 1..Len(f.fields) |-> PbFieldSize(f.fields[i])])
    [] f.t = "bytes" -> 2 + Len(f.b)
    [] f.t = "string" -> 2 + Len(Utf8Encode(f.s))
    [] f.t = "enum" -> 2
PbSize(msg) == SumSeq([i \in 1..Len(msg.fields) |-> PbFieldSize(msg.fields[i])])

(***************************************************************************)
(* config.py: the connection profile and the signal envelope.              *)
(***************************************************************************)
DefaultUrl ==
  << "h", "t", "t", "p", ":", "/", "/", "l", "o", "c", "a", "l", "h", "o",
     "s", "t", ":", "8", "0", "0", "0" >>
CustomUrl ==
  << "h", "t", "t", "p", ":", "/", "/", "p", ".", "e", "x", "a", "m", "p",
     "l", "e", ":", "9", "0", "0", "0" >>
Admin ==
  << "a", "d", "m", "i", "n" >>
TestUser ==
  << "t", "e", "s", "t", "u", "s", "e", "r" >>
TestPass ==
  << "t", "e", "s", "t", "p", "a", "s", "s" >>
AccentedUser ==
  << "r", "e", "n", "U+00E9" >>
ColonPass ==
  << "p", ":", "w" >>
TemporalTraces ==
  << "t", "e", "m", "p", "o", "r", "a", "l", "-", "t", "r", "a", "c", "e",
     "s" >>
TemporalLogs ==
  << "t", "e", "m", "p", "o", "r", "a", "l", "-", "l", "o", "g", "s" >>
TemporalMetrics ==
  << "t", "e", "m", "p", "o", "r", "a", "l", "-", "m", "e", "t", "r", "i",
     "c", "s" >>
MyStream ==
  << "m", "y", "-", "s", "t", "r", "e", "a", "m" >>
Traces ==
  << "t", "r", "a", "c", "e", "s" >>
Logs ==
  << "l", "o", "g", "s" >>
Metrics ==
  << "m", "e", "t", "r", "i", "c", "s" >>
Events ==
  << "e", "v", "e", "n", "t", "s" >>
OtelTraces ==
  << "o", "t", "e", "l", "-", "t", "r", "a", "c", "e", "s" >>
OtelLogs ==
  << "o", "t", "e", "l", "-", "l", "o", "g", "s" >>
OtelMetrics ==
  << "o", "t", "e", "l", "-", "m", "e", "t", "r", "i", "c", "s" >>
BasicPrefix ==
  << "B", "a", "s", "i", "c", " " >>
OtelPrefix ==
  << "o", "t", "e", "l", "-" >>
V1Path ==
  << "/", "v", "1", "/" >>

\* ParseableConfig: the fields the envelope is derived from.
ParseableConfig(url, username, password) ==
  [url |-> url, username |-> username, password |-> password,
   traces_stream |-> TemporalTraces, logs_stream |-> TemporalLogs,
   metrics_stream |-> TemporalMetrics]

\* ParseableConfig.auth_header
auth_header(cfg) ==
  BasicPrefix \o B64Encode(Utf8Encode(cfg.username \o << ":" >> \o cfg.password))

\* ParseableConfig._LOG_SOURCE_MAP
_LOG_SOURCE_MAP ==
  (Traces :> OtelTraces) @@ (Logs :> OtelLogs) @@ (Metrics :> OtelMetrics)

\* headers_for_signal, with the plausible slip of always naming the traces
\* stream instead of the stream passed in.
HeadersForSignalFixedStream(cfg, stream, signal) ==
  ("Authorization" :> auth_header(cfg))
  @@ ("X-P-Stream" :> cfg.traces_stream)
  @@ ("X-P-Log-Source" :>
        IF signal \in DOMAIN _LOG_SOURCE_MAP THEN _LOG_SOURCE_MAP[signal]
        ELSE OtelPrefix \o signal)

\* ParseableConfig.headers_for_signal(stream, signal)
headers_for_signal(cfg, stream, signal) ==
  ("Authorization" :> auth_header(cfg))
  @@ ("X-P-Stream" :> stream)
  @@ ("X-P-Log-Source" :>
        IF signal \in DOMAIN _LOG_SOURCE_MAP THEN _LOG_SOURCE_MAP[signal]
        ELSE OtelPrefix \o signal)

\* ParseableConfig.traces_endpoint, logs_endpoint, metrics_endpoint
traces_endpoint(cfg) == cfg.url \o V1Path \o Traces
logs_endpoint(cfg) == cfg.url \o V1Path \o Logs
metrics_endpoint(cfg) == cfg.url \o V1Path \o Metrics

(***************************************************************************)
(* Inputs of the pure functions.                                           *)
(***************************************************************************)
ByteVals == { 0, 65, 222, 255 }

RECURSIVE BytesUpTo(_)
BytesUpTo(k) ==
  IF k = 0 THEN { << >> }
  ELSE LET shorter == BytesUpTo(k - 1)
       IN shorter \cup { Append(b, v) : b \in { x \in shorter : Len(x) = k - 1 },
                                        v \in ByteVals }

\* A 16-byte trace identifier and an 8-byte span identifier.
TraceId16 ==
  << 222, 173, 190, 239, 222, 173, 190, 239, 222, 173, 190, 239, 222, 173, 190, 239 >>
SpanId8 == << 0, 17, 34, 51, 68, 85, 102, 255 >>

IdBytes == BytesUpTo(MaxBytes) \cup { TraceId16, SpanId8 }

\* Identifier bytes the enumerated documents carry.
SampleBytes == { << 222, 173 >>, SpanId8 }

\* Texts that are no base64: a character outside the alphabet after a
\* complete group ("QUJD!"), a character outside it inside a group ("Q-Q=="),
\* a missing pad ("QUI"), one data character ("Q"), a character outside ASCII.
BadTexts ==
  { << "Q", "U", "J", "D", "!" >>,
    << "Q", "-", "Q", "=", "=" >>,
    << "Q", "U", "I" >>,
    << "Q" >>,
    << "U+00E9", "A", "A", "A" >> }

LeafNodes ==
  { StrNode(B64Encode(b)) : b \in SampleBytes }
  \cup { StrNode(x) : x \in BadTexts }
  \cup { IntNode(7) }

\* Leaves added beside an existing entry.
SiblingNodes == { StrNode(B64Encode(<< 222, 173 >>)), StrNode(<< "Q", "U", "J", "D", "!" >>) }

DocKeys == { TraceIdKey, SpanIdKey, ParentSpanIdKey, NameKey }
SiblingKeys == { SpanIdKey, NameKey }


(***************************************************************************)
(* exporters.py: the session and the adapter mounted on it.                *)
(*                                                                         *)
(* A request is its url, its headers (a function from the names present    *)
(* to their values) and its body.  A body is either the serialisation of   *)
(* a non-empty protobuf message (enc = "protobuf", pb the message) or raw  *)
(* bytes (enc = "raw"); the zero-length body is raw and empty.             *)
(***************************************************************************)
ApplicationProtobuf ==
  << "a", "p", "p", "l", "i", "c", "a", "t", "i", "o", "n", "/", "x", "-",
     "p", "r", "o", "t", "o", "b", "u", "f" >>
ApplicationJson ==
  << "a", "p", "p", "l", "i", "c", "a", "t", "i", "o", "n", "/", "j", "s",
     "o", "n" >>
HttpsScheme ==
  << "h", "t", "t", "p", "s", ":", "/", "/" >>
HttpScheme ==
  << "h", "t", "t", "p", ":", "/", "/" >>
ResourceSpansField ==
  << "r", "e", "s", "o", "u", "r", "c", "e", "_", "s", "p", "a", "n", "s" >>
ScopeSpansField ==
  << "s", "c", "o", "p", "e", "_", "s", "p", "a", "n", "s" >>
SpansField ==
  << "s", "p", "a", "n", "s" >>
TraceIdField ==
  << "t", "r", "a", "c", "e", "_", "i", "d" >>
SpanIdField ==
  << "s", "p", "a", "n", "_", "i", "d" >>
ParentSpanIdField ==
  << "p", "a", "r", "e", "n", "t", "_", "s", "p", "a", "n", "_", "i", "d" >>
LinksField ==
  << "l", "i", "n", "k", "s" >>
SchemaUrlField ==
  << "s", "c", "h", "e", "m", "a", "_", "u", "r", "l" >>
AccentedName ==
  << "r", "u", "n", " ", "U+00E9" >>
QuotedName ==
  << "s", "a", "y", " ", "\"", "h", "i", "\"" >>

EmptyMessage == PbMessage(<< >>, << >>)

PbBody(m) == [enc |-> "protobuf", pb |-> m, data |-> << >>]
RawBody(bytes) == [enc |-> "raw", pb |-> EmptyMessage, data |-> bytes]

\* len(request.body)
BodyLen(body) == IF body.enc = "protobuf" THEN PbSize(body.pb) ELSE Len(body.data)

\* msg = proto_class(); msg.ParseFromString(body): the message, or DecodeError
\* (ok = FALSE) for bytes that are no encoding of the bound message shape.
\* The raw bodies of the model other than the empty one are no such encoding.
ParseFromString(body) ==
  IF body.enc = "protobuf" THEN [ok |-> TRUE, msg |-> body.pb]
  ELSE [ok |-> body.data = << >>, msg |-> EmptyMessage]

\* str.startswith(prefix)
StartsWith(s, prefix) ==
  Len(prefix) <= Len(s) /\ SubSeq(s, 1, Len(prefix)) = prefix

\* Session.mount(prefix, adapter): the adapter is registered and every
\* shorter prefix is moved behind it.
Mount(adapters, prefix, adapter) ==
  LET others == SelectSeq(adapters, LAMBDA a : a.prefix # prefix)
      added == Append(others, [prefix |-> prefix, adapter |-> adapter])
      longer == SelectSeq(added, LAMBDA a : Len(a.prefix) >= Len(prefix))
      shorter == SelectSeq(added, LAMBDA a : Len(a.prefix) < Len(prefix))
  IN longer \o shorter

\* requests.Session(): the two default transport adapters.
NewSession == Mount(Mount(<< >>, HttpsScheme, "HTTPAdapter"), HttpScheme, "HTTPAdapter")

\* _create_json_session, with the plausible slip of mounting the adapter on
\* the scheme instead of the endpoint.
CreateJsonSessionOnScheme(endpoint) == Mount(NewSession, HttpScheme, "_ProtobufToJsonAdapter")

\* _create_json_session(proto_class, endpoint)
_create_json_session(endpoint) == Mount(NewSession, endpoint, "_ProtobufToJsonAdapter")

\* Session.get_adapter(url): the first mounted prefix the url starts with,
\* both in lower case.
RECURSIVE get_adapter(_, _)
get_adapter(adapters, url) ==
  IF adapters = << >> THEN "InvalidSchema"
  ELSE IF StartsWith(LowerText(url), LowerText(Head(adapters).prefix))
       THEN Head(adapters).adapter
       ELSE get_adapter(Tail(adapters), url)

HasHeader(req, name) == name \in DOMAIN req.headers

\* request.headers[name] = value
SetHeader(headers, name, value) ==
  [x \in DOMAIN headers \cup { name } |-> IF x = name THEN value ELSE headers[x]]

\* The condition of send: a non-empty body declared as protobuf.
ShouldTranscode(req) ==
  /\ BodyLen(req.body) > 0
  /\ HasHeader(req, "Content-Type")
  /\ req.headers["Content-Type"] = ApplicationProtobuf

\* json.dumps(d, ensure_ascii=False).encode("utf-8")
EncodeJson(document) == Utf8Encode(JsonDumps(document))

(***************************************************************************)
(* Requests handed to the session.                                         *)
(***************************************************************************)
TheConfig == ParseableConfig(DefaultUrl, Admin, Admin)

\* The endpoint in another letter case, another signal's endpoint, another host.
ShoutedEndpoint ==
  << "h", "t", "t", "p", ":", "/", "/", "l", "o", "c", "a", "l", "h", "o",
     "s", "t", ":", "8", "0", "0", "0", "/", "V", "1", "/", "T", "R", "A",
     "C", "E", "S" >>
OtherHostUrl ==
  << "h", "t", "t", "p", ":", "/", "/", "e", "x", "a", "m", "p", "l", "e",
     ".", "o", "r", "g", "/", "v", "1", "/", "t", "r", "a", "c", "e", "s" >>

Span(fieldNames, fieldValues) == PbMessage(fieldNames, fieldValues)

\* An export request holding one span under one scope under one resource.
ExportRequest(span) ==
  PbMessage(<< ResourceSpansField >>,
    << PbRepeated(<< PbMessage(<< ScopeSpansField >>,
         << PbRepeated(<< PbMessage(<< SpansField >>,
              << PbRepeated(<< span >>) >>) >>) >>) >>) >>)

\* A span with 16- and 8-byte identifiers and a name outside ASCII.
AccentedSpanRequest ==
  ExportRequest(Span(<< TraceIdField, SpanIdField, NameKey, KindKey >>,
                     << PbBytes(TraceId16), PbBytes(SpanId8),
                        PbString(AccentedName), PbEnum(2) >>))

\* A span with a parent, a quoted name and a link carrying identifiers.
LinkedSpanRequest ==
  ExportRequest(Span(<< TraceIdField, SpanIdField, ParentSpanIdField, NameKey, LinksField >>,
                     << PbBytes(<< 222, 173 >>), PbBytes(<< 0 >>), PbBytes(<< 255, 255, 255 >>),
                        PbString(QuotedName),
                        PbRepeated(<< PbMessage(<< TraceIdField, SpanIdField >>,
                                        << PbBytes(<< 65, 66, 67 >>), PbBytes(<< 1 >>) >>) >>) >>))

\* Bytes that are no protobuf message: a truncated varint, and a JSON text.
TruncatedVarint == << 255, 255 >>
JsonBytes == Utf8Encode(<< "{", "\"", "a", "\"", ":", " ", "1", "}" >>)

\* A prepared request: the exporter's headers, the content length of the
\* body and, when ct is not empty, the content type.
PreparedRequest(url, ct, body) ==
  [url |-> url,
   headers |->
     LET base == SetHeader(headers_for_signal(TheConfig, TheConfig.traces_stream, Traces),
                           "Content-Length", DecimalStr(BodyLen(body)))
     IN IF ct = << >> THEN base ELSE SetHeader(base, "Content-Type", ct),
   body |-> body]

\* The requests handed to the session: export requests for the endpoint
\* (a message, the empty message, undecodable bytes), requests for the
\* endpoint that are not declared as protobuf, and requests for other urls
\* (the endpoint in another letter case, another signal, another host).
EntryRequests ==
  LET ep == traces_endpoint(TheConfig)
  IN { PreparedRequest(ep, ApplicationProtobuf, PbBody(AccentedSpanRequest)),
       PreparedRequest(ep, ApplicationProtobuf, RawBody(<< >>)),
       PreparedRequest(ep, ApplicationProtobuf, RawBody(TruncatedVarint)),
       PreparedRequest(ep, ApplicationJson, RawBody(JsonBytes)),
       PreparedRequest(ep, << >>, PbBody(AccentedSpanRequest)),
       PreparedRequest(ShoutedEndpoint, ApplicationProtobuf, PbBody(LinkedSpanRequest)),
       PreparedRequest(logs_endpoint(TheConfig), ApplicationProtobuf, PbBody(LinkedSpanRequest)),
       PreparedRequest(OtherHostUrl, ApplicationProtobuf, PbBody(AccentedSpanRequest)) }

NoRequest == [url |-> << >>, headers |-> << >>, body |-> RawBody(<< >>)]

\* What the underlying transport's send may do: return a response, or raise.
TransportOutcomes ==
  { "response 200", "raise ConnectionError" }

Calls == 1..NCalls

VARIABLES
  doc,      \* the document handed to _fix_bytes_fields
  fixed,    \* the document it returned
  fpc,      \* "build" while the input is being chosen, "fixed" after the call
  raw,      \* identifier bytes
  text,     \* their base64 text, as MessageToDict renders a bytes field
  hexed,    \* the result of _b64_to_hex
  bpc,      \* "raw", "text" or "hex"
  config,   \* the connection profile
  stream,   \* the stream name passed to headers_for_signal
  signal,   \* the signal kind passed to headers_for_signal
  envelope, \* the header map returned
  endpoint, \* the endpoint property read for the signal
  epc,      \* "args", then "built", then "read"
  adapters, \* the session's mounted adapters, in lookup order
  pc,       \* per call of Session.send: the statement of send it is at
  request,  \* per call: the request object, as it is now
  entry,    \* per call: the request as it was handed to the session
  msg,      \* per call: the local msg
  d,        \* per call: the local d
  body,     \* per call: the local body
  result,   \* per call: what the caller got, a response or an exception
  wire,     \* per call: the calls of the underlying transport's send, in order
  _meter,   \* metrics_interceptor._meter: "None" or the meter set
  apc,      \* per activity execution: where execute_activity is
  ainput,   \* per execution: the input passed to execute_activity
  attrs,    \* per execution: the local attrs
  instruments, \* per execution: the meter its four instruments were created from
  aoutcome, \* per execution: what the next interceptor returned or raised
  aresult,  \* per execution: what the caller of execute_activity got
  alog,     \* per execution: the measurements and the calls of next, in order
  flags,    \* the enable_traces, enable_logs and enable_metrics of the plugin's config
  _providers, \* ParseablePlugin._providers
  tracing_interceptor, \* the local of __init__
  metrics_interceptor, \* the local of __init__
  client_interceptors, \* what __init__ hands to SimplePlugin as client_interceptors
  worker_interceptors, \* what __init__ hands to SimplePlugin as worker_interceptors
  root_handlers, \* the handlers __init__ added to the root logger
  ppc,      \* where the plugin is: in __init__, constructed, in its run context
  body_outcome, \* how the body wrapped by the run context ended
  shutdowns, \* the calls of provider.shutdown() made on exit, with their outcomes
  errlog,   \* the providers named in logger.exception calls
  ctx_result, \* what left the run context: a normal exit or an exception
  exporters, \* per signal: the exporter its factory returned, or NoExporter
  objects,  \* the number of session and adapter objects created so far
  xlog      \* the export calls made so far, in order

fixVars == << doc, fixed, fpc >>
b64Vars == << raw, text, hexed, bpc >>
envVars == << config, stream, signal, envelope, endpoint, epc >>
sendVars == << adapters, pc, request, entry, msg, d, body, result, wire >>
actLocals == << apc, ainput, attrs, instruments, aoutcome, aresult, alog >>
actVars == << _meter, actLocals >>
plugVars == << flags, _providers, tracing_interceptor, metrics_interceptor,
               client_interceptors, worker_interceptors, root_handlers, ppc,
               body_outcome, shutdowns, errlog, ctx_result >>
expVars == << exporters, objects, xlog >>
vars == << fixVars, b64Vars, envVars, sendVars, actVars, plugVars, expVars >>
notFix == << b64Vars, envVars, sendVars, actVars, plugVars, expVars >>
notB64 == << fixVars, envVars, sendVars, actVars, plugVars, expVars >>
notEnv == << fixVars, b64Vars, sendVars, actVars, plugVars, expVars >>
notSend == << fixVars, b64Vars, envVars, actVars, plugVars, expVars >>
notAct == << fixVars, b64Vars, envVars, sendVars, plugVars, expVars >>
notPlug == << fixVars, b64Vars, envVars, sendVars, actVars, expVars >>
notExp == << fixVars, b64Vars, envVars, sendVars, actVars, plugVars >>

(***************************************************************************)
(* _fix_bytes_fields applied to a document built up from the inside out.   *)
(***************************************************************************)
FixInit == doc \in LeafNodes /\ fixed = IntNode(0) /\ fpc = "build"
FixParked == doc = IntNode(0) /\ fixed = IntNode(0) /\ fpc = "off"

WrapInDict ==
  /\ fpc = "build"
  /\ Depth(doc) < MaxDepth
  /\ \E k \in DocKeys : doc' = DictNode(<< k >>, << doc >>)
  /\ UNCHANGED << fixed, fpc, notFix >>

WrapInList ==
  /\ fpc = "build"
  /\ Depth(doc) < MaxDepth
  /\ doc' = ListNode(<< doc >>)
  /\ UNCHANGED << fixed, fpc, notFix >>

AddSibling ==
  /\ fpc = "build"
  /\ doc.t \in { "dict", "list" }
  /\ Siblings(doc) < MaxSiblings
  /\ \E leaf \in SiblingNodes :
       \/ /\ doc.t = "dict"
          /\ \E k \in SiblingKeys \ { doc.keys[i] : i \in 1..Len(doc.keys) } :
               doc' = DictNode(Append(doc.keys, k), Append(doc.items, leaf))
       \/ /\ doc.t = "list"
          /\ doc' = ListNode(Append(doc.items, leaf))
  /\ UNCHANGED << fixed, fpc, notFix >>

FixBytesFields ==
  /\ fpc = "build"
  /\ fixed' = _fix_bytes_fields(doc)
  /\ fpc' = "fixed"
  /\ UNCHANGED << doc, notFix >>

FixNext == WrapInDict \/ WrapInList \/ AddSibling \/ FixBytesFields

(***************************************************************************)
(* _b64_to_hex applied to the base64 text of identifier bytes.             *)
(***************************************************************************)
B64Init == raw \in IdBytes /\ text = << >> /\ hexed = << >> /\ bpc = "raw"
B64Parked == raw = << >> /\ text = << >> /\ hexed = << >> /\ bpc = "off"

\* MessageToDict renders a bytes field as base64 text.
EncodeBytes ==
  /\ bpc = "raw"
  /\ text' = B64Encode(raw)
  /\ bpc' = "text"
  /\ UNCHANGED << raw, hexed, notB64 >>

ConvertText ==
  /\ bpc = "text"
  /\ hexed' = _b64_to_hex(text)
  /\ bpc' = "hex"
  /\ UNCHANGED << raw, text, notB64 >>

B64Next == EncodeBytes \/ ConvertText

(***************************************************************************)
(* headers_for_signal and the endpoint properties of a profile.            *)
(***************************************************************************)
Configs ==
  { ParseableConfig(u, n, p) : u \in { DefaultUrl, CustomUrl },
                               n \in { Admin, TestUser, AccentedUser },
                               p \in { Admin, TestPass, ColonPass } }
StreamNames == { TemporalTraces, MyStream, << >> }
SignalKinds == { Traces, Logs, Metrics, Events }

EnvInit ==
  /\ config \in Configs
  /\ stream \in StreamNames
  /\ signal \in SignalKinds
  /\ envelope = << >>
  /\ endpoint = << >>
  /\ epc = "args"
EnvParked ==
  /\ config = TheConfig
  /\ stream = << >>
  /\ signal = << >>
  /\ envelope = << >>
  /\ endpoint = << >>
  /\ epc = "off"

HeadersForSignal ==
  /\ epc = "args"
  /\ envelope' = headers_for_signal(config, stream, signal)
  /\ epc' = "built"
  /\ UNCHANGED << config, stream, signal, endpoint, notEnv >>

\* The endpoint property of the signal; there is one per known kind.
ReadEndpoint ==
  /\ epc = "built"
  /\ signal \in { Traces, Logs, Metrics }
  /\ endpoint' = CASE signal = Traces -> traces_endpoint(config)
                   [] signal = Logs -> logs_endpoint(config)
                   [] signal = Metrics -> metrics_endpoint(config)
  /\ epc' = "read"
  /\ UNCHANGED << config, stream, signal, envelope, notEnv >>

EnvNext == HeadersForSignal \/ ReadEndpoint

(***************************************************************************)
(* Session.send and _ProtobufToJsonAdapter.send, statement by statement.   *)
(***************************************************************************)
SendInit ==
  /\ adapters = _create_json_session(traces_endpoint(TheConfig))
  /\ pc = [c \in Calls |-> "idle"]
  /\ request = [c \in Calls |-> NoRequest]
  /\ entry = [c \in Calls |-> NoRequest]
  /\ msg = [c \in Calls |-> EmptyMessage]
  /\ d = [c \in Calls |-> IntNode(0)]
  /\ body = [c \in Calls |-> << >>]
  /\ result = [c \in Calls |-> "none"]
  /\ wire = [c \in Calls |-> << >>]
SendParked ==
  /\ adapters = << >>
  /\ pc = [c \in Calls |-> "off"]
  /\ request = [c \in Calls |-> NoRequest]
  /\ entry = [c \in Calls |-> NoRequest]
  /\ msg = [c \in Calls |-> EmptyMessage]
  /\ d = [c \in Calls |-> IntNode(0)]
  /\ body = [c \in Calls |-> << >>]
  /\ result = [c \in Calls |-> "none"]
  /\ wire = [c \in Calls |-> << >>]

\* Session.send(request): the adapter mounted for the url gets the request.
SessionSend(c) ==
  /\ pc[c] = "idle"
  /\ \E req \in EntryRequests :
       /\ request' = [request EXCEPT ![c] = req]
       /\ entry' = [entry EXCEPT ![c] = req]
       /\ pc' = [pc EXCEPT ![c] =
                   IF get_adapter(adapters, req.url) = "_ProtobufToJsonAdapter"
                   THEN "send" ELSE "dispatch"]
  /\ UNCHANGED << adapters, msg, d, body, result, wire, notSend >>

\* if request.body and request.headers.get("Content-Type") == ...
CheckRequest(c) ==
  /\ pc[c] = "send"
  /\ pc' = [pc EXCEPT ![c] = IF ShouldTranscode(request[c]) THEN "parse" ELSE "dispatch"]
  /\ UNCHANGED << adapters, request, entry, msg, d, body, result, wire, notSend >>

\* ParseFromString, with the plausible slip of swallowing the decoding error
\* and sending the request as it is.
ParseOrSendAnyway(c) ==
  /\ pc[c] = "parse"
  /\ LET parsed == ParseFromString(request[c].body)
     IN IF parsed.ok
        THEN /\ msg' = [msg EXCEPT ![c] = parsed.msg]
             /\ pc' = [pc EXCEPT ![c] = "todict"]
        ELSE /\ pc' = [pc EXCEPT ![c] = "dispatch"]
             /\ UNCHANGED msg
  /\ UNCHANGED << adapters, request, entry, d, body, result, wire, notSend >>

\* msg = self._proto_class(); msg.ParseFromString(request.body)
Parse(c) ==
  /\ pc[c] = "parse"
  /\ LET parsed == ParseFromString(request[c].body)
     IN IF parsed.ok
        THEN /\ msg' = [msg EXCEPT ![c] = parsed.msg]
             /\ pc' = [pc EXCEPT ![c] = "todict"]
             /\ UNCHANGED result
        ELSE /\ result' = [result EXCEPT ![c] = "raise DecodeError"]
             /\ pc' = [pc EXCEPT ![c] = "done"]
             /\ UNCHANGED msg
  /\ UNCHANGED << adapters, request, entry, d, body, wire, notSend >>

\* The conversion, with the plausible slip of a message kept on the adapter
\* (self._msg) instead of in a local: the message converted is the one
\* parsed last by any call.
ToDictOfSharedMessage(c) ==
  /\ pc[c] = "todict"
  /\ \E other \in Calls :
       /\ other = c \/ pc[other] \in { "todict", "fix", "dumps", "setbody", "settype",
                                       "setlength", "dispatch", "done" }
       /\ d' = [d EXCEPT ![c] = MessageToDict(msg[other])]
  /\ pc' = [pc EXCEPT ![c] = "fix"]
  /\ UNCHANGED << adapters, request, entry, msg, body, result, wire, notSend >>

\* d = MessageToDict(msg, use_integers_for_enums=True)
ToDict(c) ==
  /\ pc[c] = "todict"
  /\ d' = [d EXCEPT ![c] = MessageToDict(msg[c])]
  /\ pc' = [pc EXCEPT ![c] = "fix"]
  /\ UNCHANGED << adapters, request, entry, msg, body, result, wire, notSend >>

\* d = _fix_bytes_fields(d)
FixUp(c) ==
  /\ pc[c] = "fix"
  /\ d' = [d EXCEPT ![c] = _fix_bytes_fields(d[c])]
  /\ pc' = [pc EXCEPT ![c] = "dumps"]
  /\ UNCHANGED << adapters, request, entry, msg, body, result, wire, notSend >>

\* body = json.dumps(d, ensure_ascii=False).encode("utf-8")
Dumps(c) ==
  /\ pc[c] = "dumps"
  /\ body' = [body EXCEPT ![c] = EncodeJson(d[c])]
  /\ pc' = [pc EXCEPT ![c] = "setbody"]
  /\ UNCHANGED << adapters, request, entry, msg, d, result, wire, notSend >>

\* request.body = body
SetBody(c) ==
  /\ pc[c] = "setbody"
  /\ request' = [request EXCEPT ![c].body = RawBody(body[c])]
  /\ pc' = [pc EXCEPT ![c] = "settype"]
  /\ UNCHANGED << adapters, entry, msg, d, body, result, wire, notSend >>

\* The Content-Type statement, with the plausible slip of leaving it out.
KeepContentType(c) ==
  /\ pc[c] = "settype"
  /\ pc' = [pc EXCEPT ![c] = "setlength"]
  /\ UNCHANGED << adapters, request, entry, msg, d, body, result, wire, notSend >>

\* request.headers["Content-Type"] = "application/json"
SetContentType(c) ==
  /\ pc[c] = "settype"
  /\ request' = [request EXCEPT ![c].headers =
                   SetHeader(@, "Content-Type", ApplicationJson)]
  /\ pc' = [pc EXCEPT ![c] = "setlength"]
  /\ UNCHANGED << adapters, entry, msg, d, body, result, wire, notSend >>

\* The Content-Length statement, with the plausible slip of leaving it out.
KeepContentLength(c) ==
  /\ pc[c] = "setlength"
  /\ pc' = [pc EXCEPT ![c] = "dispatch"]
  /\ UNCHANGED << adapters, request, entry, msg, d, body, result, wire, notSend >>

\* request.headers["Content-Length"] = str(len(body))
SetContentLength(c) ==
  /\ pc[c] = "setlength"
  /\ request' = [request EXCEPT ![c].headers =
                   SetHeader(@, "Content-Length", DecimalStr(Len(body[c])))]
  /\ pc' = [pc EXCEPT ![c] = "dispatch"]
  /\ UNCHANGED << adapters, entry, msg, d, body, result, wire, notSend >>

\* The transport called, with the plausible slip of calling it again when
\* it raised.
DispatchWithRetry(c) ==
  /\ pc[c] = "dispatch"
  /\ \E first \in TransportOutcomes, second \in TransportOutcomes :
       IF first = "response 200"
       THEN /\ wire' = [wire EXCEPT ![c] =
                         Append(@, [request |-> request[c], outcome |-> first])]
            /\ result' = [result EXCEPT ![c] = first]
       ELSE /\ wire' = [wire EXCEPT ![c] =
                         @ \o << [request |-> request[c], outcome |-> first],
                                 [request |-> request[c], outcome |-> second] >>]
            /\ result' = [result EXCEPT ![c] = second]
  /\ pc' = [pc EXCEPT ![c] = "done"]
  /\ UNCHANGED << adapters, request, entry, msg, d, body, notSend >>

\* return super().send(request, ...): the underlying transport is called with
\* the request as it is now, and what it returns or raises is the outcome.
Dispatch(c) ==
  /\ pc[c] = "dispatch"
  /\ \E outcome \in TransportOutcomes :
       /\ wire' = [wire EXCEPT ![c] =
                    Append(@, [request |-> request[c], outcome |-> outcome])]
       /\ result' = [result EXCEPT ![c] = outcome]
  /\ pc' = [pc EXCEPT ![c] = "done"]
  /\ UNCHANGED << adapters, request, entry, msg, d, body, notSend >>

\* The request object of a finished call, as the call left it, is handed to
\* the session again (a redirect that keeps the body, a re-send of the
\* prepared request).
Resend(c) ==
  /\ pc[c] = "done"
  /\ Len(wire[c]) \in 1..(MaxPasses - 1)
  /\ pc' = [pc EXCEPT ![c] =
              IF get_adapter(adapters, request[c].url) = "_ProtobufToJsonAdapter"
              THEN "send" ELSE "dispatch"]
  /\ result' = [result EXCEPT ![c] = "none"]
  /\ UNCHANGED << adapters, request, entry, msg, d, body, wire, notSend >>

\* One caller only: the other calls are never made.
SendInitOne ==
  /\ adapters = _create_json_session(traces_endpoint(TheConfig))
  /\ pc = [c \in Calls |-> IF c = 1 THEN "idle" ELSE "off"]
  /\ request = [c \in Calls |-> NoRequest]
  /\ entry = [c \in Calls |-> NoRequest]
  /\ msg = [c \in Calls |-> EmptyMessage]
  /\ d = [c \in Calls |-> IntNode(0)]
  /\ body = [c \in Calls |-> << >>]
  /\ result = [c \in Calls |-> "none"]
  /\ wire = [c \in Calls |-> << >>]

SendNext ==
  \E c \in Calls :
    \/ SessionSend(c)
    \/ CheckRequest(c)
    \/ Parse(c)
    \/ ToDict(c)
    \/ FixUp(c)
    \/ Dumps(c)
    \/ SetBody(c)
    \/ SetContentType(c)
    \/ SetContentLength(c)
    \/ Dispatch(c)

(***************************************************************************)
(* metrics_interceptor.py: set_meter and                                   *)
(* _MetricsActivityInterceptor.execute_activity.  The statements up to the *)
(* call of the next interceptor run without suspension; the await of the   *)
(* next interceptor is where other executions and set_meter interleave.    *)
(***************************************************************************)
Execs == 1..NExec
Meters == { "meter1", "meter2" }

\* temporalio.activity.info() of the executions.
ActivityInfos ==
  { [activity_type |-> "greet", workflow_type |-> "Order", task_queue |-> "q",
     workflow_namespace |-> "default"],
    [activity_type |-> "charge", workflow_type |-> "Order", task_queue |-> "q",
     workflow_namespace |-> "default"] }
\* The ExecuteActivityInput of an execution.
NoInput == [fn |-> "", args |-> 0]
ActivityInput(info, e) == [fn |-> info.activity_type, args |-> e]
NoAttrs == [activity_type |-> "", workflow_type |-> "", task_queue |-> "", namespace |-> ""]

\* What the next interceptor's execute_activity does: it returns a value,
\* raises an Exception, or raises a BaseException that is no Exception.
ActivityOutcomes == { "return 42", "raise ValueError", "raise CancelledError" }
IsReturn(o) == o = "return 42"
IsException(o) == o = "raise ValueError"

\* An entry of an execution's log: a measurement (on an instrument of a
\* meter, with attributes) or a call or outcome of the next interceptor.
Measurement(name, meter, a) ==
  [name |-> name, meter |-> meter, attrs |-> a, input |-> NoInput, outcome |-> "none"]
NextCalled(in) ==
  [name |-> "next.execute_activity", meter |-> "None", attrs |-> NoAttrs, input |-> in,
   outcome |-> "none"]
NextEnded(o) ==
  [name |-> "next.ended", meter |-> "None", attrs |-> NoAttrs, input |-> NoInput,
   outcome |-> o]

ActInit ==
  /\ _meter = "None"
  /\ apc = [e \in Execs |-> "idle"]
  /\ ainput = [e \in Execs |-> NoInput]
  /\ attrs = [e \in Execs |-> NoAttrs]
  /\ instruments = [e \in Execs |-> "None"]
  /\ aoutcome = [e \in Execs |-> "none"]
  /\ aresult = [e \in Execs |-> "none"]
  /\ alog = [e \in Execs |-> << >>]
ActParked ==
  /\ _meter = "None"
  /\ apc = [e \in Execs |-> "off"]
  /\ ainput = [e \in Execs |-> NoInput]
  /\ attrs = [e \in Execs |-> NoAttrs]
  /\ instruments = [e \in Execs |-> "None"]
  /\ aoutcome = [e \in Execs |-> "none"]
  /\ aresult = [e \in Execs |-> "none"]
  /\ alog = [e \in Execs |-> << >>]

\* set_meter(meter): the plugin's constructor sets the meter of its own
\* provider, so each call brings a meter not set before.
set_meter(meter) ==
  /\ \/ _meter = "None"
     \/ _meter = "meter1" /\ meter = "meter2"
  /\ _meter' = meter
  /\ UNCHANGED << apc, ainput, attrs, instruments, aoutcome, aresult, alog, notAct >>

\* execute_activity up to t0: without a meter nothing is created; with one,
\* attrs is built from the activity info, the four instruments are created
\* from the meter and started is incremented.
Enter(e) ==
  /\ apc[e] = "idle"
  /\ \E info \in ActivityInfos :
       /\ ainput' = [ainput EXCEPT ![e] = ActivityInput(info, e)]
       /\ IF _meter = "None"
          THEN UNCHANGED << attrs, instruments, alog >>
          ELSE LET a == [activity_type |-> info.activity_type,
                         workflow_type |-> info.workflow_type,
                         task_queue |-> info.task_queue,
                         namespace |-> info.workflow_namespace]
               IN /\ attrs' = [attrs EXCEPT ![e] = a]
                  /\ instruments' = [instruments EXCEPT ![e] = _meter]
                  /\ alog' = [alog EXCEPT ![e] =
                                Append(@, Measurement("temporal.activity.started", _meter, a))]
  /\ apc' = [apc EXCEPT ![e] = "call"]
  /\ UNCHANGED << _meter, aoutcome, aresult, notAct >>

\* The call of the next interceptor, with the plausible slip of passing a
\* fresh input instead of the one received.
CallNextWithFreshInput(e) ==
  /\ apc[e] = "call"
  /\ alog' = [alog EXCEPT ![e] =
                Append(@, NextCalled(NoInput))]
  /\ apc' = [apc EXCEPT ![e] = "running"]
  /\ UNCHANGED << _meter, ainput, attrs, instruments, aoutcome, aresult, notAct >>

\* self.next.execute_activity(input) is called and awaited.
CallNext(e) ==
  /\ apc[e] = "call"
  /\ alog' = [alog EXCEPT ![e] =
                Append(@, NextCalled(ainput[e]))]
  /\ apc' = [apc EXCEPT ![e] = "running"]
  /\ UNCHANGED << _meter, ainput, attrs, instruments, aoutcome, aresult, notAct >>

\* The next interceptor returns or raises.  Without instruments its aoutcome
\* is the caller's; with them the try statement goes on.
ActivityEnds(e) ==
  /\ apc[e] = "running"
  /\ \E o \in ActivityOutcomes :
       /\ aoutcome' = [aoutcome EXCEPT ![e] = o]
       /\ alog' = [alog EXCEPT ![e] = Append(@, NextEnded(o))]
       /\ IF instruments[e] = "None"
          THEN /\ aresult' = [aresult EXCEPT ![e] = o]
               /\ apc' = [apc EXCEPT ![e] = "done"]
          ELSE /\ UNCHANGED aresult
               /\ apc' = [apc EXCEPT ![e] =
                            IF IsReturn(o) THEN "completed"
                            ELSE IF IsException(o) THEN "failed" ELSE "finally"]
  /\ UNCHANGED << _meter, ainput, attrs, instruments, notAct >>

\* completed.add(1, attrs)
AddCompleted(e) ==
  /\ apc[e] = "completed"
  /\ alog' = [alog EXCEPT ![e] =
                Append(@, Measurement("temporal.activity.completed", instruments[e], attrs[e]))]
  /\ apc' = [apc EXCEPT ![e] = "finally"]
  /\ UNCHANGED << _meter, ainput, attrs, instruments, aoutcome, aresult, notAct >>

\* The except clause, with the plausible slip of an execution that raised
\* being counted as completed too.
AddFailedAndCompleted(e) ==
  /\ apc[e] = "failed"
  /\ alog' = [alog EXCEPT ![e] =
                @ \o << Measurement("temporal.activity.failed", instruments[e], attrs[e]),
                        Measurement("temporal.activity.completed", instruments[e], attrs[e]) >>]
  /\ apc' = [apc EXCEPT ![e] = "finally"]
  /\ UNCHANGED << _meter, ainput, attrs, instruments, aoutcome, aresult, notAct >>

\* except Exception: failed.add(1, attrs); raise
AddFailed(e) ==
  /\ apc[e] = "failed"
  /\ alog' = [alog EXCEPT ![e] =
                Append(@, Measurement("temporal.activity.failed", instruments[e], attrs[e]))]
  /\ apc' = [apc EXCEPT ![e] = "finally"]
  /\ UNCHANGED << _meter, ainput, attrs, instruments, aoutcome, aresult, notAct >>

\* The finally clause, with the plausible slip of recording the duration in
\* the try block only, so that a failed execution records none.
RecordDurationOnSuccess(e) ==
  /\ apc[e] = "finally"
  /\ alog' = [alog EXCEPT ![e] =
                IF IsReturn(aoutcome[e])
                THEN Append(@, Measurement("temporal.activity.duration", instruments[e],
                                           attrs[e]))
                ELSE @]
  /\ aresult' = [aresult EXCEPT ![e] = aoutcome[e]]
  /\ apc' = [apc EXCEPT ![e] = "done"]
  /\ UNCHANGED << _meter, ainput, attrs, instruments, aoutcome, notAct >>

\* The finally clause, with the plausible slip of a histogram created from
\* the global meter at that moment instead of the one created at entry.
RecordDurationOnGlobalMeter(e) ==
  /\ apc[e] = "finally"
  /\ alog' = [alog EXCEPT ![e] =
                Append(@, Measurement("temporal.activity.duration", _meter, attrs[e]))]
  /\ aresult' = [aresult EXCEPT ![e] = aoutcome[e]]
  /\ apc' = [apc EXCEPT ![e] = "done"]
  /\ UNCHANGED << _meter, ainput, attrs, instruments, aoutcome, notAct >>

\* finally: duration.record(time.monotonic() - t0, attrs); then the value is
\* returned or the exception goes on to the caller.
RecordDuration(e) ==
  /\ apc[e] = "finally"
  /\ alog' = [alog EXCEPT ![e] =
                Append(@, Measurement("temporal.activity.duration", instruments[e], attrs[e]))]
  /\ aresult' = [aresult EXCEPT ![e] = aoutcome[e]]
  /\ apc' = [apc EXCEPT ![e] = "done"]
  /\ UNCHANGED << _meter, ainput, attrs, instruments, aoutcome, notAct >>

ActNext ==
  \/ \E m \in Meters : set_meter(m)
  \/ \E e \in Execs :
       \/ Enter(e)
       \/ CallNext(e)
       \/ ActivityEnds(e)
       \/ AddCompleted(e)
       \/ AddFailed(e)
       \/ RecordDuration(e)

(***************************************************************************)
(* plugin.py: ParseablePlugin.__init__ and ParseablePlugin._run_context.   *)
(***************************************************************************)
Booleans == { TRUE, FALSE }
Flags == [enable_traces : Booleans, enable_logs : Booleans, enable_metrics : Booleans]

\* How the body wrapped by the run context ends: it finishes, raises an
\* Exception, or is cancelled (a BaseException that is no Exception).
BodyOutcomes == { "return", "raise RuntimeError", "raise CancelledError" }

\* What provider.shutdown() does: it returns, or raises an Exception.
ShutdownOutcomes == { "return", "raise RuntimeError" }

PlugInit ==
  /\ flags \in Flags
  /\ _providers = << >>
  /\ tracing_interceptor = "None"
  /\ metrics_interceptor = "None"
  /\ client_interceptors = "unset"
  /\ worker_interceptors = "unset"
  /\ root_handlers = << >>
  /\ ppc = "tracing"
  /\ body_outcome = "none"
  /\ shutdowns = << >>
  /\ errlog = << >>
  /\ ctx_result = "none"
PlugParked ==
  /\ flags = [enable_traces |-> FALSE, enable_logs |-> FALSE, enable_metrics |-> FALSE]
  /\ _providers = << >>
  /\ tracing_interceptor = "None"
  /\ metrics_interceptor = "None"
  /\ client_interceptors = "unset"
  /\ worker_interceptors = "unset"
  /\ root_handlers = << >>
  /\ ppc = "off"
  /\ body_outcome = "none"
  /\ shutdowns = << >>
  /\ errlog = << >>
  /\ ctx_result = "none"

\* __init__, "--- Tracing ---": with traces enabled the tracer provider is
\* set up and appended, and the tracing interceptor is created.
TracingStep ==
  /\ ppc = "tracing"
  /\ IF flags.enable_traces
     THEN /\ _providers' = Append(_providers, "TracerProvider")
          /\ tracing_interceptor' = "TracingInterceptor"
     ELSE UNCHANGED << _providers, tracing_interceptor >>
  /\ ppc' = "logging"
  /\ UNCHANGED << flags, metrics_interceptor, client_interceptors, worker_interceptors,
                  root_handlers, body_outcome, shutdowns, errlog, ctx_result, notPlug >>

\* __init__, "--- Logging ---": with logs enabled the logger provider is set
\* up and appended, and its handler is added to the root logger.
LoggingStep ==
  /\ ppc = "logging"
  /\ IF flags.enable_logs
     THEN /\ _providers' = Append(_providers, "LoggerProvider")
          /\ root_handlers' = Append(root_handlers, "LoggingHandler")
     ELSE UNCHANGED << _providers, root_handlers >>
  /\ ppc' = "metrics"
  /\ UNCHANGED << flags, tracing_interceptor, metrics_interceptor, client_interceptors,
                  worker_interceptors, body_outcome, shutdowns, errlog, ctx_result,
                  notPlug >>

\* __init__, "--- Metrics ---" without the call of set_meter.
MetricsStepKeepsMeter ==
  /\ ppc = "metrics"
  /\ IF flags.enable_metrics
     THEN /\ _providers' = Append(_providers, "MeterProvider")
          /\ metrics_interceptor' = "MetricsInterceptor"
     ELSE UNCHANGED << _providers, metrics_interceptor >>
  /\ ppc' = "register"
  /\ UNCHANGED << flags, tracing_interceptor, client_interceptors, worker_interceptors,
                  root_handlers, body_outcome, shutdowns, errlog, ctx_result,
                  fixVars, b64Vars, envVars, sendVars, actVars, expVars >>

\* __init__, "--- Metrics ---": with metrics enabled the meter provider is
\* set up and appended, its meter becomes the global meter and the metrics
\* interceptor is created.
MetricsStep ==
  /\ ppc = "metrics"
  /\ IF flags.enable_metrics
     THEN /\ _providers' = Append(_providers, "MeterProvider")
          /\ _meter' = "meter1"
          /\ metrics_interceptor' = "MetricsInterceptor"
     ELSE UNCHANGED << _providers, _meter, metrics_interceptor >>
  /\ ppc' = "register"
  /\ UNCHANGED << flags, tracing_interceptor, client_interceptors, worker_interceptors,
                  root_handlers, body_outcome, shutdowns, errlog, ctx_result,
                  fixVars, b64Vars, envVars, sendVars, actLocals, expVars >>

\* The interceptor lists and super().__init__: an empty list is passed as None.
Register ==
  /\ ppc = "register"
  /\ client_interceptors' =
       IF tracing_interceptor # "None" THEN << tracing_interceptor >> ELSE "None"
  /\ worker_interceptors' =
       IF metrics_interceptor # "None" THEN << metrics_interceptor >> ELSE "None"
  /\ ppc' = "constructed"
  /\ UNCHANGED << flags, _providers, tracing_interceptor, metrics_interceptor,
                  root_handlers, body_outcome, shutdowns, errlog, ctx_result, notPlug >>

\* _run_context up to the yield.
EnterContext ==
  /\ ppc = "constructed"
  /\ ppc' = "body"
  /\ UNCHANGED << flags, _providers, tracing_interceptor, metrics_interceptor,
                  client_interceptors, worker_interceptors, root_handlers,
                  body_outcome, shutdowns, errlog, ctx_result, notPlug >>

\* The wrapped body ends: the yield returns or raises, and the finally
\* clause begins.
BodyEnds ==
  /\ ppc = "body"
  /\ \E o \in BodyOutcomes : body_outcome' = o
  /\ ppc' = "finally"
  /\ UNCHANGED << flags, _providers, tracing_interceptor, metrics_interceptor,
                  client_interceptors, worker_interceptors, root_handlers,
                  shutdowns, errlog, ctx_result, notPlug >>

\* One iteration of the loop, leaving the loop at the first shutdown that raises.
ShutdownUntilFailure ==
  /\ ppc = "finally"
  /\ Len(shutdowns) < Len(_providers)
  /\ LET provider == _providers[Len(shutdowns) + 1]
     IN \E o \in ShutdownOutcomes :
          /\ shutdowns' = Append(shutdowns, [provider |-> provider, outcome |-> o])
          /\ IF o = "return"
             THEN UNCHANGED << errlog, ppc, ctx_result >>
             ELSE /\ errlog' = Append(errlog, provider)
                  /\ ppc' = "exited"
                  /\ ctx_result' = body_outcome
  /\ UNCHANGED << flags, _providers, tracing_interceptor, metrics_interceptor,
                  client_interceptors, worker_interceptors, root_handlers,
                  body_outcome, notPlug >>

\* One iteration of `for provider in self._providers`: shutdown is called on
\* the next provider, and an Exception it raises is logged with the
\* provider's type name.
ShutdownProvider ==
  /\ ppc = "finally"
  /\ Len(shutdowns) < Len(_providers)
  /\ LET provider == _providers[Len(shutdowns) + 1]
     IN \E o \in ShutdownOutcomes :
          /\ shutdowns' = Append(shutdowns, [provider |-> provider, outcome |-> o])
          /\ errlog' = IF o = "return" THEN errlog ELSE Append(errlog, provider)
  /\ UNCHANGED << flags, _providers, tracing_interceptor, metrics_interceptor,
                  client_interceptors, worker_interceptors, root_handlers, ppc,
                  body_outcome, ctx_result, notPlug >>

\* The loop is over: the finally clause ends and what the body did leaves
\* the context manager.
ExitContext ==
  /\ ppc = "finally"
  /\ Len(shutdowns) = Len(_providers)
  /\ ctx_result' = body_outcome
  /\ ppc' = "exited"
  /\ UNCHANGED << flags, _providers, tracing_interceptor, metrics_interceptor,
                  client_interceptors, worker_interceptors, root_handlers,
                  body_outcome, shutdowns, errlog, notPlug >>

PlugNext ==
  \/ TracingStep
  \/ LoggingStep
  \/ MetricsStep
  \/ Register
  \/ EnterContext
  \/ BodyEnds
  \/ ShutdownProvider
  \/ ExitContext

(***************************************************************************)
(* exporters.py: create_trace_exporter, create_log_exporter and            *)
(* create_metric_exporter, and export calls through the sessions they made.*)
(***************************************************************************)
Signals == { Traces, Logs, Metrics }
NoExporter == [made |-> FALSE]

\* The message class, endpoint and stream each factory passes on.
ProtoClassOf(sig) ==
  IF sig = Traces THEN "ExportTraceServiceRequest"
  ELSE IF sig = Logs THEN "ExportLogsServiceRequest"
  ELSE "ExportMetricsServiceRequest"
EndpointOf(cfg, sig) ==
  IF sig = Traces THEN traces_endpoint(cfg)
  ELSE IF sig = Logs THEN logs_endpoint(cfg)
  ELSE metrics_endpoint(cfg)
StreamOf(cfg, sig) ==
  IF sig = Traces THEN cfg.traces_stream
  ELSE IF sig = Logs THEN cfg.logs_stream
  ELSE cfg.metrics_stream

\* The exporter a factory returns: _create_json_session makes a new session
\* (object first) and a new adapter (object first + 1) bound to proto_class
\* and mounts the adapter on session_endpoint; the exporter keeps the
\* endpoint, the headers and the session.
Exporter(proto_class, session_endpoint, exporter_endpoint, headers, first) ==
  [made |-> TRUE,
   session |-> [id |-> first, adapters |-> _create_json_session(session_endpoint)],
   adapter |-> [id |-> first + 1, _proto_class |-> proto_class],
   endpoint |-> exporter_endpoint,
   headers |-> headers]

\* A message of each signal's shape: one record with identifiers under one
\* scope under one resource.
SignalMessage(sig) ==
  IF sig = Traces THEN AccentedSpanRequest
  ELSE IF sig = Logs
  THEN PbMessage(<< << "r", "e", "s", "o", "u", "r", "c", "e", "_", "l", "o", "g", "s" >> >>,
         << PbRepeated(<< PbMessage(<< << "s", "c", "o", "p", "e", "_", "l", "o", "g", "s" >> >>,
              << PbRepeated(<< PbMessage(
                   << << "l", "o", "g", "_", "r", "e", "c", "o", "r", "d", "s" >> >>,
                   << PbRepeated(<< PbMessage(<< TraceIdField, SpanIdField >>,
                        << PbBytes(TraceId16), PbBytes(SpanId8) >>) >>) >>) >>) >>) >>) >>)
  ELSE PbMessage(<< << "r", "e", "s", "o", "u", "r", "c", "e", "_", "m", "e", "t", "r", "i", "c", "s" >> >>,
         << PbRepeated(<< PbMessage(<< << "s", "c", "o", "p", "e", "_", "m", "e", "t", "r", "i", "c", "s" >> >>,
              << PbRepeated(<< PbMessage(<< Metrics >>,
                   << PbRepeated(<< PbMessage(<< NameKey >>,
                        << PbString(AccentedName) >>) >>) >>) >>) >>) >>) >>)

\* The bodies an exporter posts: the encoding of a message of its own
\* shape, or bytes that are no encoding of it.
ExportBodies(sig) == { PbBody(SignalMessage(sig)), RawBody(TruncatedVarint) }

\* The request an exporter posts through its session.
ExportPost(exporter, data) ==
  [url |-> exporter.endpoint,
   headers |-> SetHeader(SetHeader(exporter.headers, "Content-Type", ApplicationProtobuf),
                         "Content-Length", DecimalStr(BodyLen(data))),
   body |-> data]

\* _ProtobufToJsonAdapter.send as a function of the request: the exception
\* raised by the decoding, or the request handed to the transport.
AdapterSend(req) ==
  IF ~ShouldTranscode(req) THEN [raised |-> "none", sent |-> req]
  ELSE LET parsed == ParseFromString(req.body)
       IN IF ~parsed.ok THEN [raised |-> "DecodeError", sent |-> NoRequest]
          ELSE LET new == EncodeJson(_fix_bytes_fields(MessageToDict(parsed.msg)))
               IN [raised |-> "none",
                   sent |-> [url |-> req.url,
                             headers |-> SetHeader(SetHeader(req.headers, "Content-Type",
                                                             ApplicationJson),
                                                   "Content-Length", DecimalStr(Len(new))),
                             body |-> RawBody(new)]]

\* Session.send of a session: the adapter mounted for the url sends.
SendThrough(session, req) ==
  IF get_adapter(session.adapters, req.url) = "_ProtobufToJsonAdapter"
  THEN AdapterSend(req)
  ELSE [raised |-> "none", sent |-> req]

ExpInit ==
  /\ exporters = [sig \in Signals |-> NoExporter]
  /\ objects = 0
  /\ xlog = << >>
ExpParked ==
  /\ exporters = [sig \in Signals |-> NoExporter]
  /\ objects = 0
  /\ xlog = << >>

create_trace_exporter ==
  /\ ~exporters[Traces].made
  /\ exporters' = [exporters EXCEPT ![Traces] =
       Exporter("ExportTraceServiceRequest", traces_endpoint(TheConfig),
                traces_endpoint(TheConfig),
                headers_for_signal(TheConfig, TheConfig.traces_stream, Traces), objects + 1)]
  /\ objects' = objects + 2
  /\ UNCHANGED << xlog, notExp >>

\* create_log_exporter, with the plausible slip of a session made for the
\* traces endpoint.
CreateLogExporterOnTracesSession ==
  /\ ~exporters[Logs].made
  /\ exporters' = [exporters EXCEPT ![Logs] =
       Exporter("ExportLogsServiceRequest", traces_endpoint(TheConfig),
                logs_endpoint(TheConfig),
                headers_for_signal(TheConfig, TheConfig.logs_stream, Logs), objects + 1)]
  /\ objects' = objects + 2
  /\ UNCHANGED << xlog, notExp >>

create_log_exporter ==
  /\ ~exporters[Logs].made
  /\ exporters' = [exporters EXCEPT ![Logs] =
       Exporter("ExportLogsServiceRequest", logs_endpoint(TheConfig),
                logs_endpoint(TheConfig),
                headers_for_signal(TheConfig, TheConfig.logs_stream, Logs), objects + 1)]
  /\ objects' = objects + 2
  /\ UNCHANGED << xlog, notExp >>

create_metric_exporter ==
  /\ ~exporters[Metrics].made
  /\ exporters' = [exporters EXCEPT ![Metrics] =
       Exporter("ExportMetricsServiceRequest", metrics_endpoint(TheConfig),
                metrics_endpoint(TheConfig),
                headers_for_signal(TheConfig, TheConfig.metrics_stream, Metrics), objects + 1)]
  /\ objects' = objects + 2
  /\ UNCHANGED << xlog, notExp >>

\* An exporter posts a body through its own session; the transport answers
\* every request it is handed.
Export ==
  /\ Len(xlog) < MaxExports
  /\ \E sig \in Signals :
       /\ exporters[sig].made
       /\ \E b \in ExportBodies(sig) :
            LET req == ExportPost(exporters[sig], b)
                out == SendThrough(exporters[sig].session, req)
            IN xlog' = Append(xlog, [signal |-> sig, entry |-> req, sent |-> out.sent,
                                     result |-> IF out.raised = "none" THEN "response 200"
                                                ELSE "raise " \o out.raised])
  /\ UNCHANGED << exporters, objects, notExp >>

ExpNext ==
  \/ create_trace_exporter
  \/ create_log_exporter
  \/ create_metric_exporter
  \/ Export

InitFix == FixInit /\ B64Parked /\ EnvParked /\ SendParked /\ ActParked /\ PlugParked /\ ExpParked
SpecFix == InitFix /\ [][FixNext]_vars
InitB64 == B64Init /\ FixParked /\ EnvParked /\ SendParked /\ ActParked /\ PlugParked /\ ExpParked
SpecB64 == InitB64 /\ [][B64Next]_vars
InitEnv == EnvInit /\ FixParked /\ B64Parked /\ SendParked /\ ActParked /\ PlugParked /\ ExpParked
SpecEnvelope == InitEnv /\ [][EnvNext]_vars
InitAct == ActInit /\ FixParked /\ B64Parked /\ EnvParked /\ SendParked /\ PlugParked /\ ExpParked
SpecActivity == InitAct /\ [][ActNext]_vars
Init == SendInit /\ FixParked /\ B64Parked /\ EnvParked /\ ActParked /\ PlugParked /\ ExpParked
InitPlug ==
  PlugInit /\ FixParked /\ B64Parked /\ EnvParked /\ SendParked /\ ActParked /\ ExpParked
InitExp ==
  ExpInit /\ FixParked /\ B64Parked /\ EnvParked /\ SendParked /\ ActParked /\ PlugParked
SpecExporters == InitExp /\ [][ExpNext]_vars
SpecPlugin == InitPlug /\ [][PlugNext]_vars
InitResend ==
  SendInitOne /\ FixParked /\ B64Parked /\ EnvParked /\ ActParked /\ PlugParked /\ ExpParked
ResendNext == SendNext \/ \E c \in Calls : Resend(c)
SpecResend == InitResend /\ [][ResendNext]_vars
\* Concurrent calls on the one adapter, for the properties of their steps.
InitConcurrent ==
  SendInit /\ FixParked /\ B64Parked /\ EnvParked /\ ActParked /\ PlugParked /\ ExpParked
SpecConcurrent == InitConcurrent /\ [][SendNext]_vars
Next == SendNext
Spec == Init /\ [][Next]_vars

(***************************************************************************)
(* Properties of the identifier fix-up.                                    *)
(***************************************************************************)
\* Paths of the input document that lead to an entry under an identifier key.
IdPaths == { p \in Paths(doc) : IsEntry(doc, p) /\ KeyAt(doc, p) \in _BYTES_KEYS }

\* C4: in the document _fix_bytes_fields returns, every entry at any depth
\* whose key is traceId, spanId or parentSpanId and whose value is the base64
\* text of some bytes holds the lowercase hexadecimal text of those bytes; an
\* entry under such a key whose value is not text keeps its kind, and the
\* identifier entries nested under it are converted like any other.
C4_FixReachesEveryOccurrence ==
  fpc = "fixed" =>
    \A p \in IdPaths :
      /\ NodeAt(doc, p).t = "str" =>
           \A b \in SampleBytes :
             NodeAt(doc, p).s = B64Encode(b) => NodeAt(fixed, p) = StrNode(Hex(b))
      /\ NodeAt(doc, p).t # "str" =>
           /\ NodeAt(fixed, p).t = NodeAt(doc, p).t
           /\ NodeAt(fixed, p).keys = NodeAt(doc, p).keys
           /\ Len(NodeAt(fixed, p).items) = Len(NodeAt(doc, p).items)

\* A mapping under traceId holds a spanId entry, and both levels were walked.
C4_Witness ==
  /\ fpc = "fixed"
  /\ doc = DictNode(<< TraceIdKey >>,
                    << DictNode(<< SpanIdKey >>, << StrNode(B64Encode(SpanId8)) >>) >>)
  /\ NodeAt(fixed, << 1, 1 >>) = StrNode(Hex(SpanId8))

LowerHexChars ==
  { "0", "1", "2", "3", "4", "5", "6", "7", "8", "9", "a", "b", "c", "d", "e", "f" }

\* C5: for every byte string b, _b64_to_hex of the base64 text of b is the
\* hexadecimal text of b: 2 * len(b) characters, all in 0-9a-f.
C5_RoundTrip ==
  bpc = "hex" =>
    /\ hexed = Hex(raw)
    /\ Len(hexed) = 2 * Len(raw)
    /\ \A i \in 1..Len(hexed) : hexed[i] \in LowerHexChars

\* The 16-byte trace identifier came out as 32 characters.
C5_Witness ==
  /\ bpc = "hex"
  /\ raw = TraceId16
  /\ Len(hexed) = 32
  /\ SubSeq(hexed, 1, 8) = << "d", "e", "a", "d", "b", "e", "e", "f" >>

\* Valid base64 (RFC 4648): a multiple of four characters, all of the
\* alphabet, the last one or two possibly "=".
IsValidB64(s) ==
  /\ Len(s) % 4 = 0
  /\ \A i \in 1..Len(s) :
       \/ IsB64Char(s[i])
       \/ /\ s[i] = "="
          /\ i >= Len(s) - 1
          /\ \A j \in i..Len(s) : s[j] = "="

\* C6: an identifier entry whose text is not valid base64 is left exactly as
\* it was by the fix-up (which does not raise), whatever else the document
\* holds.
C6_InvalidBase64Unchanged ==
  fpc = "fixed" =>
    \A p \in IdPaths :
      (NodeAt(doc, p).t = "str" /\ ~IsValidB64(NodeAt(doc, p).s))
        => NodeAt(fixed, p) = NodeAt(doc, p)

(***************************************************************************)
(* Properties of the adapter's send.                                       *)
(***************************************************************************)
BoundPrefix == traces_endpoint(TheConfig)

ContentTypeOf(req) ==
  IF HasHeader(req, "Content-Type") THEN req.headers["Content-Type"] ELSE << >>

\* The requests that reached the transport, each with the request as it
\* was handed to the session.
Sent ==
  UNION { { [e |-> entry[c], r |-> wire[c][i].request] : i \in 1..Len(wire[c]) } :
          c \in Calls }

\* C1, as stated: a request whose Content-Type is not application/x-protobuf,
\* or whose url does not start with the prefix the adapter is mounted on,
\* reaches the transport with the body and headers it had on entry.
C1_PassThroughExactPrefix ==
  \A x \in Sent :
    LET e == x.e
    IN (ContentTypeOf(e) # ApplicationProtobuf \/ ~StartsWith(e.url, BoundPrefix))
         => x.r = e

\* C1, amended: the same, the url compared with the prefix without regard
\* to letter case, as the session looks its adapters up.
C1_PassThrough ==
  \A x \in Sent :
    LET e == x.e
    IN (ContentTypeOf(e) # ApplicationProtobuf
        \/ ~StartsWith(LowerText(e.url), LowerText(BoundPrefix)))
         => x.r = e

\* A protobuf request for another host reached the transport as it was.
C1_Witness ==
  \E x \in Sent :
    LET e == x.e
    IN /\ ContentTypeOf(e) = ApplicationProtobuf
       /\ e.url = OtherHostUrl
       /\ e.body.enc = "protobuf"
       /\ x.r = e

\* C2: every request for the bound prefix that declares
\* application/x-protobuf, whatever its body (a zero-length one included),
\* reaches the transport with Content-Type application/json and a JSON body.
C2_EveryProtobufRequestTranscoded ==
  \A x \in Sent :
    LET e == x.e
    IN (ContentTypeOf(e) = ApplicationProtobuf /\ StartsWith(e.url, BoundPrefix))
         => /\ ContentTypeOf(x.r) = ApplicationJson
            /\ x.r.body.enc = "raw"
            /\ x.r.body.data # << >>
            /\ x.r.body.data[1] = Ord("{")

\* C3: a request the adapter changed in any way reaches the transport with
\* all three parts rewritten: the body is the UTF-8 JSON text of the fixed-up
\* document of the message it carried, Content-Type is application/json and
\* Content-Length is the decimal count of the bytes of that body.
C3_RewrittenPartsAgree ==
  \A x \in Sent :
    LET e == x.e
        r == x.r
    IN r # e =>
         /\ e.body.enc = "protobuf"
         /\ r.body = RawBody(Utf8Encode(JsonDumps(_fix_bytes_fields(MessageToDict(e.body.pb)))))
         /\ ContentTypeOf(r) = ApplicationJson
         /\ HasHeader(r, "Content-Length")
         /\ r.headers["Content-Length"] = DecimalStr(Len(r.body.data))
         /\ r.url = e.url
         /\ \A h \in DOMAIN e.headers \ { "Content-Type", "Content-Length" } :
              h \in DOMAIN r.headers /\ r.headers[h] = e.headers[h]

\* A rewritten request whose JSON text has fewer characters than bytes.
C3_Witness ==
  \E x \in Sent :
    LET e == x.e
        r == x.r
    IN /\ r # e
       /\ e.body.enc = "protobuf"
       /\ Len(JsonDumps(_fix_bytes_fields(MessageToDict(e.body.pb)))) < Len(r.body.data)
       /\ r.headers["Content-Length"] # e.headers["Content-Length"]

\* C7: when the body cannot be decoded, the error reaches the caller, the
\* transport is not called for that request, and the request keeps the body
\* and headers it had on entry.
C7_DecodeErrorPropagates ==
  \A c \in Calls :
    /\ (pc[c] = "done" /\ entry[c].body = RawBody(TruncatedVarint)
        /\ ContentTypeOf(entry[c]) = ApplicationProtobuf
        /\ get_adapter(adapters, entry[c].url) = "_ProtobufToJsonAdapter")
         => result[c] = "raise DecodeError"
    /\ result[c] = "raise DecodeError"
         => /\ wire[c] = << >>
            /\ request[c] = entry[c]

C7_Witness ==
  \E c \in Calls :
    /\ pc[c] = "done"
    /\ result[c] = "raise DecodeError"
    /\ entry[c].body = RawBody(TruncatedVarint)

\* C8: a call of send that does not fail in decoding calls the transport
\* exactly once, with the request as the adapter left it, and the caller gets
\* what the transport returned or raised; no call reaches the transport twice.
C8_TransportCalledOnce ==
  \A c \in Calls :
    /\ Len(wire[c]) <= 1
    /\ (pc[c] # "done") => wire[c] = << >>
    /\ (pc[c] = "done" /\ result[c] # "raise DecodeError")
         => /\ Len(wire[c]) = 1
            /\ wire[c][1].request = request[c]
            /\ result[c] = wire[c][1].outcome

\* A rewritten request was sent, the transport raised, and the caller got
\* that exception.
C8_Witness ==
  \E c \in Calls :
    /\ pc[c] = "done"
    /\ result[c] = "raise ConnectionError"
    /\ request[c] # entry[c]
    /\ Len(wire[c]) = 1

(***************************************************************************)
(* Properties of the signal envelope.                                      *)
(***************************************************************************)
\* C9: headers_for_signal returns, for every stream name and every signal
\* kind, known or not, exactly the keys Authorization, X-P-Stream and
\* X-P-Log-Source: the stream name as given, "otel-" followed by the kind,
\* and "Basic " followed by base64 text that decodes to username:password;
\* the endpoint of a kind is the profile url followed by /v1/ and the kind.
C9_EnvelopeOfSignal ==
  /\ epc \in { "built", "read" } =>
       /\ DOMAIN envelope = { "Authorization", "X-P-Stream", "X-P-Log-Source" }
       /\ envelope["X-P-Stream"] = stream
       /\ envelope["X-P-Log-Source"] = << "o", "t", "e", "l", "-" >> \o signal
       /\ LET auth == envelope["Authorization"]
              token == SubSeq(auth, 7, Len(auth))
          IN /\ SubSeq(auth, 1, 6) = << "B", "a", "s", "i", "c", " " >>
             /\ IsValidB64(token)
             /\ B64Decode(token).ok
             /\ B64Decode(token).raw
                  = Utf8Encode(config.username) \o << 58 >> \o Utf8Encode(config.password)
  /\ epc = "read" => endpoint = config.url \o << "/", "v", "1", "/" >> \o signal

\* The envelope of an unknown kind for a profile with a name outside ASCII.
C9_Witness ==
  /\ epc = "built"
  /\ signal = Events
  /\ stream = MyStream
  /\ config.username = AccentedUser
  /\ envelope["X-P-Log-Source"] = << "o", "t", "e", "l", "-", "e", "v", "e", "n", "t", "s" >>


(***************************************************************************)
(* Properties of the activity metrics hook.                                *)
(***************************************************************************)
CountOf(log, name) == Len(SelectSeq(log, LAMBDA ev : ev.name = name))
PlaceOf(log, name) == CHOOSE i \in 1..Len(log) : log[i].name = name
Measurements(log) ==
  SelectSeq(log, LAMBDA ev : ev.name \notin { "next.execute_activity", "next.ended" })

\* C10: an execution intercepted while a meter is set increments started
\* exactly once, before the wrapped activity begins; on a normal return it
\* increments completed exactly once and failed not at all; on an Exception
\* it increments failed exactly once, completed not at all, and the caller
\* gets the same exception; in both cases duration is recorded exactly once,
\* after the activity ended; and every measurement carries the same attrs.
C10_OncePerExecution ==
  \A e \in Execs :
    instruments[e] # "None" =>
      LET log == alog[e]
      IN /\ CountOf(log, "temporal.activity.started") = 1
         /\ log[1].name = "temporal.activity.started"
         /\ CountOf(log, "temporal.activity.completed") <= 1
         /\ CountOf(log, "temporal.activity.failed") <= 1
         /\ CountOf(log, "temporal.activity.duration") <= 1
         /\ \A i \in 1..Len(Measurements(log)) :
              /\ Measurements(log)[i].attrs = attrs[e]
              /\ Measurements(log)[i].attrs.activity_type \in { "greet", "charge" }
         /\ (apc[e] = "done" /\ IsReturn(aoutcome[e])) =>
              /\ CountOf(log, "temporal.activity.completed") = 1
              /\ CountOf(log, "temporal.activity.failed") = 0
              /\ aresult[e] = aoutcome[e]
         /\ (apc[e] = "done" /\ IsException(aoutcome[e])) =>
              /\ CountOf(log, "temporal.activity.failed") = 1
              /\ CountOf(log, "temporal.activity.completed") = 0
              /\ aresult[e] = aoutcome[e]
         /\ (apc[e] = "done" /\ (IsReturn(aoutcome[e]) \/ IsException(aoutcome[e]))) =>
              /\ CountOf(log, "temporal.activity.duration") = 1
              /\ PlaceOf(log, "temporal.activity.duration") > PlaceOf(log, "next.ended")
         /\ CountOf(log, "temporal.activity.duration") = 1 => apc[e] = "done"

\* Two executions under a meter, one returned and one raised an Exception.
C10_Witness ==
  \E e1, e2 \in Execs :
    /\ apc[e1] = "done" /\ instruments[e1] # "None" /\ IsReturn(aresult[e1])
    /\ apc[e2] = "done" /\ instruments[e2] # "None" /\ IsException(aresult[e2])
    /\ CountOf(alog[e2], "temporal.activity.failed") = 1
    /\ CountOf(alog[e1], "temporal.activity.duration") = 1

(***************************************************************************)
(* Properties of the plugin.                                               *)
(***************************************************************************)
RECURSIVE FailedOf(_)
FailedOf(calls) ==
  IF calls = << >> THEN << >>
  ELSE IF calls[1].outcome = "return" THEN FailedOf(Tail(calls))
       ELSE << calls[1].provider >> \o FailedOf(Tail(calls))

ExpectedProviders ==
  (IF flags.enable_traces THEN << "TracerProvider" >> ELSE << >>)
  \o (IF flags.enable_logs THEN << "LoggerProvider" >> ELSE << >>)
  \o (IF flags.enable_metrics THEN << "MeterProvider" >> ELSE << >>)

ExportedAlone(sig, b) ==
  AdapterSend([url |-> EndpointOf(TheConfig, sig),
               headers |->
                 SetHeader(SetHeader(headers_for_signal(TheConfig, StreamOf(TheConfig, sig), sig),
                                     "Content-Type", ApplicationProtobuf),
                           "Content-Length", DecimalStr(BodyLen(b))),
               body |-> b])

\* C13: every exporter made has its own session and its own adapter, bound
\* to its signal's message class, endpoint and stream headers; and every
\* export call, whatever calls of the other signals came before it and
\* however they ended, is sent (or fails in decoding) exactly as it would
\* alone: a decodable body reaches the transport as JSON for its own
\* signal's endpoint and stream.
C13_SignalsIsolated ==
  /\ \A sig \in Signals :
       exporters[sig].made =>
         /\ exporters[sig].adapter._proto_class = ProtoClassOf(sig)
         /\ exporters[sig].endpoint = EndpointOf(TheConfig, sig)
         /\ exporters[sig].headers["X-P-Stream"] = StreamOf(TheConfig, sig)
         /\ exporters[sig].headers["X-P-Log-Source"] = OtelPrefix \o sig
         /\ get_adapter(exporters[sig].session.adapters, EndpointOf(TheConfig, sig))
              = "_ProtobufToJsonAdapter"
         /\ \A other \in Signals \ { sig } :
              /\ get_adapter(exporters[sig].session.adapters, EndpointOf(TheConfig, other))
                   = "HTTPAdapter"
              /\ exporters[other].made =>
                   /\ exporters[other].session.id # exporters[sig].session.id
                   /\ exporters[other].adapter.id # exporters[sig].adapter.id
  /\ \A i \in 1..Len(xlog) :
       LET alone == ExportedAlone(xlog[i].signal, xlog[i].entry.body)
       IN /\ xlog[i].sent = alone.sent
          /\ xlog[i].result = (IF alone.raised = "none" THEN "response 200"
                               ELSE "raise " \o alone.raised)
          /\ xlog[i].entry.body.enc = "protobuf" =>
               /\ xlog[i].sent.headers["Content-Type"] = ApplicationJson
               /\ xlog[i].sent.url = EndpointOf(TheConfig, xlog[i].signal)
               /\ xlog[i].sent.headers["X-P-Stream"] = StreamOf(TheConfig, xlog[i].signal)

C13_Witness ==
  /\ Len(xlog) = 3
  /\ xlog[1].signal = Logs /\ xlog[1].result = "raise DecodeError"
  /\ xlog[2].signal = Traces /\ xlog[2].result = "response 200"
  /\ xlog[2].sent.headers["Content-Type"] = ApplicationJson
  /\ xlog[3].signal = Metrics /\ xlog[3].result = "response 200"
  /\ xlog[3].sent.headers["Content-Type"] = ApplicationJson

(***************************************************************************)
(* Properties of concurrent calls on one adapter.                          *)
(***************************************************************************)
\* C14: under every interleaving of the steps of concurrent calls on the
\* one adapter, the mounted adapters stay as constructed; a step of one
\* call leaves the request, message, document, body and transport calls of
\* every other call as they were; the message a call decodes is the one its
\* own body holds; the request a call has when it reaches the transport is
\* the one transcoding its request alone gives; and that request is the one
\* the transport receives.
C14_ConcurrentCallsIndependent ==
  [][/\ adapters' = adapters
     /\ \A c \in Calls :
          /\ pc'[c] = pc[c] =>
               /\ request'[c] = request[c] /\ entry'[c] = entry[c]
               /\ msg'[c] = msg[c] /\ d'[c] = d[c] /\ body'[c] = body[c]
               /\ wire'[c] = wire[c] /\ result'[c] = result[c]
          /\ (pc[c] = "parse" /\ pc'[c] = "todict") =>
               msg'[c] = ParseFromString(entry[c].body).msg
          /\ (pc[c] # "dispatch" /\ pc'[c] = "dispatch") =>
               request'[c] = SendThrough([adapters |-> adapters], entry'[c]).sent
          /\ (pc[c] = "dispatch" /\ pc'[c] = "done") =>
               /\ Len(wire'[c]) = Len(wire[c]) + 1
               /\ wire'[c][Len(wire'[c])].request = request[c]]_vars

C14_Witness ==
  /\ \A c \in Calls : pc[c] = "done" /\ Len(wire[c]) = 1
  /\ entry[1].body = PbBody(AccentedSpanRequest)
  /\ entry[2].body = PbBody(LinkedSpanRequest)
  /\ \A c \in Calls :
       /\ ContentTypeOf(wire[c][1].request) = ApplicationJson
       /\ wire[c][1].request.body = RawBody(EncodeJson(_fix_bytes_fields(MessageToDict(entry[c].body.pb))))
  /\ wire[1][1].request.body # wire[2][1].request.body

\* TRUE when the path leads to text under an identifier key.
IsIdText(node, path) ==
  /\ IsEntry(node, path)
  /\ KeyAt(node, path) \in _BYTES_KEYS
  /\ NodeAt(node, path).t = "str"

\* TRUE when out is inp with nothing changed but identifier text: the same
\* positions, at each the same kind of value, the same keys in the same
\* order and the same number of items, and the same scalar wherever the
\* position is no text under an identifier key.
SameButIdText(inp, out) ==
  /\ Paths(out) = Paths(inp)
  /\ \A p \in Paths(inp) :
       /\ NodeAt(out, p).t = NodeAt(inp, p).t
       /\ NodeAt(out, p).keys = NodeAt(inp, p).keys
       /\ Len(NodeAt(out, p).items) = Len(NodeAt(inp, p).items)
       /\ (NodeAt(inp, p).t \in { "str", "int" } /\ ~IsIdText(inp, p)) =>
            NodeAt(out, p) = NodeAt(inp, p)

\* C15: a call of _fix_bytes_fields leaves the document passed in as it was
\* and returns it with nothing changed but text under traceId, spanId and
\* parentSpanId: keys, list lengths, order and every other scalar (text
\* under another key, valid base64 or not, included) are the same.
C15_OnlyIdentifierTextChanges ==
  [][(fpc = "build" /\ fpc' = "fixed") => (doc' = doc /\ SameButIdText(doc, fixed'))]_vars

\* Base64 text under name beside a converted traceId stays as it was.
C15_Witness ==
  /\ fpc = "fixed"
  /\ doc = DictNode(<< TraceIdKey, NameKey >>,
                    << StrNode(B64Encode(<< 222, 173 >>)), StrNode(B64Encode(<< 222, 173 >>)) >>)
  /\ fixed = DictNode(<< TraceIdKey, NameKey >>,
                      << StrNode(Hex(<< 222, 173 >>)), StrNode(B64Encode(<< 222, 173 >>)) >>)

(***************************************************************************)
(* Properties of a request handed to the session again.                    *)
(***************************************************************************)
\* TRUE when the first pass of call c rewrote its request.
Rewrote(c) == Len(wire[c]) >= 1 /\ wire[c][1].request # entry[c]

\* C16: when a request the adapter rewrote goes through send again, the
\* pass changes nothing: it does not decode again (so it cannot fail in
\* decoding and identifiers are not converted twice), and the request that
\* reaches the transport has the body, Content-Type and Content-Length of
\* the first pass.
C16_ResendChangesNothing ==
  \A c \in Calls :
    Rewrote(c) =>
      /\ request[c] = wire[c][1].request
      /\ pc[c] \in { "send", "dispatch", "done" }
      /\ result[c] # "raise DecodeError"
      /\ \A i \in 2..Len(wire[c]) :
           /\ wire[c][i].request.body = wire[c][1].request.body
           /\ wire[c][i].request.headers = wire[c][1].request.headers

C16_Witness ==
  /\ Len(wire[1]) = 2
  /\ entry[1].body = PbBody(AccentedSpanRequest)
  /\ ContentTypeOf(wire[1][1].request) = ApplicationJson
  /\ wire[1][2].request = wire[1][1].request
  /\ pc[1] = "done"

(***************************************************************************)
(* Properties of the measurements over all executions.                     *)
(***************************************************************************)
\* The number of measurements of a name over all executions.
Total(name) == SumSeq([e \in 1..NExec |-> CountOf(alog[e], name)])

\* Executions under a meter that began and have not recorded their duration.
InFlight == { e \in Execs : instruments[e] # "None" /\ apc[e] # "done" }

\* Executions whose outcome is counted and whose duration is not yet recorded.
Counted ==
  { e \in Execs : instruments[e] # "None" /\ apc[e] = "finally"
                  /\ (IsReturn(aoutcome[e]) \/ IsException(aoutcome[e])) }

\* Executions under a meter that ended with a BaseException that is no
\* Exception and have recorded their duration.
Cancelled ==
  { e \in Execs : instruments[e] # "None" /\ apc[e] = "done"
                  /\ ~IsReturn(aoutcome[e]) /\ ~IsException(aoutcome[e]) }

\* C17, as stated: at every point started is the executions in flight plus
\* the duration records, and completed + failed does not exceed the duration
\* records and equals them unless an execution ended with a BaseException
\* that is no Exception.
C17_ConservationAtEveryPoint ==
  /\ Total("temporal.activity.started")
       = Cardinality(InFlight) + Total("temporal.activity.duration")
  /\ Total("temporal.activity.completed") + Total("temporal.activity.failed")
       <= Total("temporal.activity.duration")
  /\ (\A e \in Execs : IsReturn(aoutcome[e]) \/ IsException(aoutcome[e])
                       \/ aoutcome[e] = "none") =>
       Total("temporal.activity.completed") + Total("temporal.activity.failed")
         = Total("temporal.activity.duration")

\* C17, amended: at every point started is the executions in flight plus the
\* duration records; completed + failed is the duration records, plus the
\* executions whose outcome is counted and whose duration is not yet
\* recorded, minus the executions that ended with a BaseException that is
\* no Exception; so with no execution in flight completed + failed does not
\* exceed the duration records and equals them unless there was such an
\* execution.
C17_Conservation ==
  /\ Total("temporal.activity.started")
       = Cardinality(InFlight) + Total("temporal.activity.duration")
  /\ Total("temporal.activity.completed") + Total("temporal.activity.failed")
       + Cardinality(Cancelled)
       = Total("temporal.activity.duration") + Cardinality(Counted)
  /\ Total("temporal.activity.completed") + Total("temporal.activity.failed")
       <= Total("temporal.activity.started")
  /\ InFlight = {} =>
       /\ Total("temporal.activity.completed") + Total("temporal.activity.failed")
            <= Total("temporal.activity.duration")
       /\ Cancelled = {} =>
            Total("temporal.activity.completed") + Total("temporal.activity.failed")
              = Total("temporal.activity.duration")

\* One execution was cancelled and recorded its duration, another has its
\* outcome counted and its duration not yet recorded.
C17_Witness ==
  \E e1, e2 \in Execs :
    /\ e1 \in Cancelled
    /\ e2 \in Counted
    /\ Total("temporal.activity.started") = 2
    /\ Total("temporal.activity.duration") = 1
    /\ Total("temporal.activity.completed") + Total("temporal.activity.failed") = 1

\* C18: every measurement of an execution is made on instruments of the
\* meter that was the global meter when the execution began, whatever
\* set_meter did while it ran; an execution that begins after a call of
\* set_meter uses the meter set last.
C18_OneExecutionOneMeter ==
  /\ [](\A e \in Execs :
          \A i \in 1..Len(Measurements(alog[e])) :
            /\ instruments[e] # "None"
            /\ Measurements(alog[e])[i].meter = instruments[e])
  /\ [][\A e \in Execs :
          /\ (apc[e] = "idle" /\ apc'[e] # "idle") =>
               /\ instruments'[e] = _meter
               /\ \A i \in 1..Len(Measurements(alog'[e])) :
                    Measurements(alog'[e])[i].meter = _meter
          /\ apc[e] # "idle" => instruments'[e] = instruments[e]]_vars

\* The meter was replaced: one execution measured everything on the first
\* meter, the other on the second.
C18_Witness ==
  \E e1, e2 \in Execs :
    /\ _meter = "meter2"
    /\ apc[e1] = "done" /\ instruments[e1] = "meter1"
    /\ Len(Measurements(alog[e1])) = 3
    /\ \A i \in 1..3 : Measurements(alog[e1])[i].meter = "meter1"
    /\ apc[e2] = "done" /\ instruments[e2] = "meter2"
    /\ \A i \in 1..Len(Measurements(alog[e2])) : Measurements(alog[e2])[i].meter = "meter2"

\* C19: with or without a meter, the next interceptor's execute_activity is
\* called once per execution with the input received, and what it returns
\* or raises is what the caller gets; an execution that began without a
\* meter makes no measurement.
C19_Transparent ==
  \A e \in Execs :
    /\ CountOf(alog[e], "next.execute_activity") =
         (IF apc[e] \in { "idle", "call", "off" } THEN 0 ELSE 1)
    /\ \A i \in 1..Len(alog[e]) :
         alog[e][i].name = "next.execute_activity" => alog[e][i].input = ainput[e]
    /\ CountOf(alog[e], "next.ended") <= 1
    /\ apc[e] = "done" =>
         /\ CountOf(alog[e], "next.ended") = 1
         /\ aresult[e] = aoutcome[e]
         /\ aresult[e] = alog[e][PlaceOf(alog[e], "next.ended")].outcome
         /\ aresult[e] \in ActivityOutcomes
    /\ apc[e] # "done" => aresult[e] = "none"
    /\ instruments[e] = "None" => Measurements(alog[e]) = << >>

\* One execution without a meter that raised, one with a meter that returned.
C19_Witness ==
  \E e1, e2 \in Execs :
    /\ apc[e1] = "done" /\ instruments[e1] = "None"
    /\ aresult[e1] = "raise ValueError"
    /\ alog[e1] = << NextCalled(ainput[e1]), NextEnded("raise ValueError") >>
    /\ apc[e2] = "done" /\ instruments[e2] # "None" /\ aresult[e2] = "return 42"
    /\ CountOf(alog[e2], "next.execute_activity") = 1

=============================================================================
